---- MODULE Spec2Model ----
(***************************************************************************)
(* A model of the pregnancy-guidance RAG chat backend (src/chatbot):       *)
(*   - TokenManager  (utils/token_manager.py): token counting and the      *)
(*     greedy context packing of truncate_context;                         *)
(*   - TextChunker   (utils/text_chunker.py): smart_chunk and the          *)
(*     sentence / paragraph splitters;                                     *)
(*   - VectorRAGSystem (core/rag_system.py): the chunk list, the FAISS id  *)
(*     map, the on-disk cache, retrieval and response generation;          *)
(*   - the /chat endpoint (api/chat_api.py) over DatabaseManager           *)
(*     (database/manager.py).                                              *)
(*                                                                         *)
(* Texts are modelled by what the code reads of them.  The chunker and the *)
(* token manager only ever take len() of a string, slice it, and join      *)
(* strings with a separator, so a string is its length there.  The         *)
(* retrieval code also counts query-word occurrences in a chunk and        *)
(* embeds it, so a chunk of the knowledge base is a record of its length   *)
(* and its word counts; the embedding model is a deterministic function    *)
(* of the text, so a stored vector is the text it was encoded from.        *)
(* Lengths are in characters, similarities in hundredths.                  *)
(***************************************************************************)
EXTENDS Integers, Sequences, FiniteSets, TLC

VARIABLES
    knowledge_base,   \* VectorRAGSystem.knowledge_base: list of chunk texts
    faiss_index,      \* VectorRAGSystem.faiss_index: [dim, vecs: list of [id, src, normalized]]
    embedding_dim,    \* VectorRAGSystem.embedding_dim of the running process
    cache,            \* the three cache files: [kb, index, hash], each NoFile or a value
    db_manager,       \* "none" (constructor failed), "noconn" (connection None), "ok"
    document_chunks,  \* table document_chunks: set of [text, vid]
    chat_sessions,    \* table chat_sessions: list of [user, active, count]; id = position
    chat_messages,    \* table chat_messages: list of [session, user, response]
    search_logs,      \* table search_logs: number of rows
    ops,              \* operations (restarts, uploads, chat requests) so far
    input,            \* the arguments drawn for a pure-function specification
    last,             \* the last operation and what it returned
    vector_database,  \* dailyrecommendationAI VectorDatabase: [index, document_chunks]
    prediction_db,    \* risk model database: [users, predictions]
    find_method,      \* what rag_system.find_relevant_context is bound to
    requests,         \* the requests in flight: [pc, ...] for each thread
    recommendations   \* dailyrecommendationAI table recommendations: list of rows

vars == <<knowledge_base, faiss_index, embedding_dim, cache, db_manager,
          document_chunks, chat_sessions, chat_messages, search_logs,
          ops, input, last, vector_database, prediction_db, find_method, requests,
          recommendations>>

ragVars == <<knowledge_base, faiss_index, embedding_dim, cache>>
dbVars == <<db_manager, document_chunks, chat_sessions, chat_messages, search_logs>>
chatbotVars == <<ragVars, dbVars, ops>>
otherVars == <<vector_database, prediction_db, find_method, requests, recommendations>>

-----------------------------------------------------------------------------
(* Generic helpers *)

Min(a, b) == IF a <= b THEN a ELSE b
Max(a, b) == IF a >= b THEN a ELSE b

RECURSIVE SeqSum(_)
SeqSum(s) == IF s = <<>> THEN 0 ELSE Head(s) + SeqSum(Tail(s))

RECURSIVE SeqMax(_)
SeqMax(s) == IF s = <<>> THEN 0 ELSE Max(Head(s), SeqMax(Tail(s)))

\* all sequences over S of length 0..n
SeqsUpTo(S, n) == UNION {[1..k -> S] : k \in 0..n}

None == "None"

-----------------------------------------------------------------------------
(* TokenManager -- src/chatbot/utils/token_manager.py *)

CharsPerToken == 4
MAX_CONTEXT_TOKENS == 3000
response_buffer == 500
MinPartialTokens == 50
HardFallbackChars == 500
SystemPromptLen == 219

\* count_tokens with self.tokenizer = None: len(text) // 4.  n is len(text).
count_tokens(n) == n \div CharsPerToken

\* available_tokens of truncate_context (line 76)
available_tokens(qlen, syslen) ==
    MAX_CONTEXT_TOKENS - count_tokens(syslen) - count_tokens(qlen) - response_buffer

\* Lines 103-109: sent_tokenize(partial_chunk); when it finds more than one
\* sentence the last one is dropped and the rest joined by single spaces.
\* Where the sentence boundaries fall is the text's business: trim is the
\* number of characters that go with the last sentence (0: one sentence only).
partial_at_sentence(plen, trim) ==
    IF trim >= 2 /\ trim < plen THEN plen - trim ELSE plen

\* The for loop without the break of line 114 for a candidate that is left
\* out whole: the candidates after it are still tried
RECURSIVE pack_loop_skipping(_, _, _, _, _, _)
pack_loop_skipping(chunks, i, avail, cur, acc, trim) ==
    IF i > Len(chunks) THEN acc
    ELSE LET chunk_tokens == count_tokens(chunks[i])
             sep == IF acc.len > 0 THEN 2 ELSE 0
         IN  IF cur + chunk_tokens <= avail
             THEN pack_loop_skipping(chunks, i + 1, avail, cur + chunk_tokens,
                            [acc EXCEPT !.full = @ + 1, !.len = @ + sep + chunks[i]],
                            trim)
             ELSE LET remaining_tokens == avail - cur
                      chars_to_fit == remaining_tokens * CharsPerToken
                      partial == partial_at_sentence(Min(chars_to_fit, chunks[i]), trim)
                  IN  IF remaining_tokens > MinPartialTokens
                      THEN [acc EXCEPT !.partial = partial, !.len = @ + sep + partial]
                      ELSE pack_loop_skipping(chunks, i + 1, avail, cur, acc, trim)

\* The for loop of lines 86-114.  chunks: the candidates' lengths; i: the next
\* candidate; cur: current_tokens; acc: what truncated_context holds so far,
\* [full: candidates appended whole, partial: characters taken of the next
\* one, len: len(truncated_context)].
RECURSIVE pack_loop(_, _, _, _, _, _)
pack_loop(chunks, i, avail, cur, acc, trim) ==
    IF i > Len(chunks) THEN acc
    ELSE LET chunk_tokens == count_tokens(chunks[i])
             sep == IF acc.len > 0 THEN 2 ELSE 0
         IN  IF cur + chunk_tokens <= avail
             THEN pack_loop(chunks, i + 1, avail, cur + chunk_tokens,
                            [acc EXCEPT !.full = @ + 1, !.len = @ + sep + chunks[i]],
                            trim)
             ELSE LET remaining_tokens == avail - cur
                      chars_to_fit == remaining_tokens * CharsPerToken
                      partial == partial_at_sentence(Min(chars_to_fit, chunks[i]), trim)
                  IN  IF remaining_tokens > MinPartialTokens
                      THEN [acc EXCEPT !.partial = partial, !.len = @ + sep + partial]
                      ELSE acc

\* The empty string as a context
EmptyContext == [kind |-> "empty", full |-> 0, partial |-> 0, len |-> 0]

\* truncate_context whose fallback of line 80 returns the first candidate
\* whole
truncate_context_unsliced(chunks, qlen, syslen, trim) ==
    IF chunks = <<>> THEN EmptyContext
    ELSE LET avail == available_tokens(qlen, syslen)
         IN  IF avail <= 0
             THEN [kind |-> "hard", full |-> 1, partial |-> 0, len |-> chunks[1]]
             ELSE [kind |-> "packed"] @@
                  pack_loop(chunks, 1, avail, 0,
                            [full |-> 0, partial |-> 0, len |-> 0], trim)

\* truncate_context(context_chunks, query, system_prompt) -> the context, as
\* [kind, full, partial, len]: kind "empty" (no candidates), "hard" (the
\* first 500 characters of the first candidate) or "packed".
truncate_context(chunks, qlen, syslen, trim) ==
    IF chunks = <<>> THEN EmptyContext
    ELSE LET avail == available_tokens(qlen, syslen)
         IN  IF avail <= 0
             THEN [kind |-> "hard", full |-> 0,
                   partial |-> Min(HardFallbackChars, chunks[1]),
                   len |-> Min(HardFallbackChars, chunks[1])]
             ELSE [kind |-> "packed"] @@
                  pack_loop(chunks, 1, avail, 0,
                            [full |-> 0, partial |-> 0, len |-> 0], trim)

\* estimate_response_tokens (lines 121-137)
estimate_response_tokens(ctxlen, qlen, syslen) ==
    count_tokens(syslen) + count_tokens(ctxlen) + count_tokens(qlen)

-----------------------------------------------------------------------------
(* TextChunker -- src/chatbot/utils/text_chunker.py                        *)
(* A raw text is a list of paragraphs (separated by blank lines), a        *)
(* paragraph a list of sentences, a sentence [len, fix]: its length as     *)
(* extracted and the number of spaces clean_text inserts into it (a        *)
(* lowercase letter followed by an uppercase one, a period followed by an  *)
(* uppercase one).  A cleaned text or a chunk is [sents, len]: the lengths *)
(* of its sentences, in order, and len() of the string.                    *)

\* The chunker's parameters as RAGConfig sets them (config/settings.py
\* 36-38); core/app.py constructs the system with chunk_size 1000 and
\* chunk_overlap 200, which the code below reads in the same comparisons.
CHUNK_SIZE == 800
CHUNK_OVERLAP == 100
MIN_CHUNK_SIZE == 50

\* len(sep.join(parts)) for parts of the given lengths
JoinLen(lens, sep) == IF lens = <<>> THEN 0 ELSE SeqSum(lens) + sep * (Len(lens) - 1)

RECURSIVE Flatten(_)
Flatten(ss) == IF ss = <<>> THEN <<>> ELSE Head(ss) \o Flatten(Tail(ss))

\* ' '.join(current_chunk) of chunk_by_sentences; carried: how many of its
\* first sentences are the overlap_sentences it was started with
SentenceChunk(sents, carried) ==
    [sents |-> sents, len |-> JoinLen(sents, 1), carried |-> carried]

\* Lines 79-92: the sentences kept from the end of current_chunk as overlap.
\* i runs from len(current_chunk) down; ov: overlap_sentences so far.
RECURSIVE overlap_sentences(_, _, _)
overlap_sentences(current_chunk, i, ov) ==
    IF i = 0 THEN ov
    ELSE IF SeqSum(ov) + current_chunk[i] <= CHUNK_OVERLAP
         THEN overlap_sentences(current_chunk, i - 1, <<current_chunk[i]>> \o ov)
         ELSE ov

\* The loop of lines 65-95 and the final chunk of lines 97-101.
RECURSIVE sentence_loop(_, _, _, _, _)
sentence_loop(sentences, i, chunks, current_chunk, carried) ==
    LET chunk_text == SentenceChunk(current_chunk, carried)
    IN  IF i > Len(sentences)
        THEN IF current_chunk # <<>> /\ chunk_text.len >= MIN_CHUNK_SIZE
             THEN Append(chunks, chunk_text)
             ELSE chunks
        ELSE LET sentence_length == sentences[i]
                 current_length == SeqSum(current_chunk)
                 overlap == overlap_sentences(current_chunk, Len(current_chunk), <<>>)
             IN  IF sentence_length = 0
                 THEN sentence_loop(sentences, i + 1, chunks, current_chunk, carried)
                 ELSE IF current_length + sentence_length > CHUNK_SIZE
                         /\ current_chunk # <<>>
                      THEN sentence_loop(sentences, i + 1,
                             IF chunk_text.len >= MIN_CHUNK_SIZE
                             THEN Append(chunks, chunk_text)
                             ELSE chunks,
                             Append(overlap, sentence_length), Len(overlap))
                      ELSE sentence_loop(sentences, i + 1, chunks,
                                         Append(current_chunk, sentence_length),
                                         carried)

\* chunk_by_sentences(text): sent_tokenize gives the text's sentences back
chunk_by_sentences(sents) == sentence_loop(sents, 1, <<>>, <<>>, 0)

\* '\n\n'.join(current_chunk) of chunk_by_paragraphs; a paragraph is the list
\* of its sentences' lengths, its own length that of the sentences joined by
\* one space
ParagraphChunk(paras) ==
    [sents |-> Flatten(paras),
     len |-> JoinLen([k \in 1..Len(paras) |-> JoinLen(paras[k], 1)], 2)]

\* The loop of lines 120-159 and the final chunk of lines 161-165.
\* current_length is carried as the code carries it (+2 per paragraph).
RECURSIVE paragraph_loop(_, _, _, _, _)
paragraph_loop(paragraphs, i, chunks, current_chunk, current_length) ==
    IF i > Len(paragraphs)
    THEN IF current_chunk # <<>> /\ ParagraphChunk(current_chunk).len >= MIN_CHUNK_SIZE
         THEN Append(chunks, ParagraphChunk(current_chunk))
         ELSE chunks
    ELSE LET paragraph == paragraphs[i]
             para_length == JoinLen(paragraph, 1)
             flushed == IF current_chunk # <<>>
                           /\ ParagraphChunk(current_chunk).len >= MIN_CHUNK_SIZE
                        THEN Append(chunks, ParagraphChunk(current_chunk))
                        ELSE chunks
         IN  IF para_length > CHUNK_SIZE
             THEN paragraph_loop(paragraphs, i + 1,
                                 flushed \o chunk_by_sentences(paragraph), <<>>, 0)
             ELSE IF current_length + para_length > CHUNK_SIZE /\ current_chunk # <<>>
                  THEN LET last_para == current_chunk[Len(current_chunk)]
                           keep == CHUNK_OVERLAP > 0
                                   /\ JoinLen(last_para, 1) <= CHUNK_OVERLAP
                       IN  paragraph_loop(paragraphs, i + 1, flushed,
                               IF keep THEN <<last_para, paragraph>> ELSE <<paragraph>>,
                               (IF keep THEN JoinLen(last_para, 1) ELSE 0)
                                   + para_length + 2)
                  ELSE paragraph_loop(paragraphs, i + 1, chunks,
                                      Append(current_chunk, paragraph),
                                      current_length + para_length + 2)

\* chunk_by_paragraphs(text): the non-empty pieces of text.split('\n\n')
chunk_by_paragraphs(paragraphs) ==
    paragraph_loop(SelectSeq(paragraphs, LAMBDA p : JoinLen(p, 1) > 0), 1, <<>>, <<>>, 0)

\* clean_text whose second substitution puts a space after every sentence's
\* period, followed by a capital or not
clean_text_respacing(raw) ==
    LET sents == Flatten(raw)
        cleaned == [k \in 1..Len(sents) |-> sents[k].len + 1]
    IN  IF cleaned = <<>> THEN <<>> ELSE <<cleaned>>

\* clean_text (lines 204-227): re.sub(r'\s+', ' ', text) comes first and turns
\* every run of whitespace, blank lines included, into one space, so the
\* cleaned text is one paragraph; the two "fix" substitutions then insert a
\* space each.  The page-marker and newline substitutions find no newline
\* left to match.  The result: the list of paragraphs of the cleaned text.
clean_text(raw) ==
    LET sents == Flatten(raw)
        cleaned == [k \in 1..Len(sents) |-> sents[k].len + sents[k].fix]
    IN  IF cleaned = <<>> THEN <<>> ELSE <<cleaned>>

\* Lines 189-195: chunks still longer than max_chunk_size are split again
RECURSIVE resplit(_)
resplit(chunks) ==
    IF chunks = <<>> THEN <<>>
    ELSE (IF Head(chunks).len > CHUNK_SIZE
          THEN chunk_by_sentences(Head(chunks).sents)
          ELSE <<Head(chunks)>>) \o resplit(Tail(chunks))

\* smart_chunk(text) -> the list of chunks
smart_chunk(raw) ==
    LET text == clean_text(raw)
        whole == ParagraphChunk(text)
    IN  IF whole.len <= CHUNK_SIZE
        THEN IF whole.len >= MIN_CHUNK_SIZE THEN <<whole>> ELSE <<>>
        ELSE SelectSeq(resplit(chunk_by_paragraphs(text)),
                       LAMBDA c : c.len >= MIN_CHUNK_SIZE)

-----------------------------------------------------------------------------
(* VectorRAGSystem -- src/chatbot/core/rag_system.py                       *)
(* A chunk of the knowledge base is [len, cnt]: len(chunk) and, for each   *)
(* word of Words, chunk.lower().count(word).                               *)

Words == {"pregnancy", "healthy", "diet", "eat"}
WordLen(w) == IF w = "pregnancy" THEN 9 ELSE IF w = "healthy" THEN 7
              ELSE IF w = "diet" THEN 4 ELSE 3

Text(n, p, h, d, e) ==
    [len |-> n, cnt |-> [pregnancy |-> p, healthy |-> h, diet |-> d, eat |-> e]]

\* The four chunks of the minimal knowledge base (lines 244-249)
MinimalKB == << Text(75, 1, 0, 0, 0), Text(76, 1, 0, 0, 0),
                Text(64, 1, 1, 1, 0), Text(64, 1, 1, 0, 0) >>

\* The chunks that documents (the default corpus file, uploaded PDFs) bring
Corpus == { Text(800, 0, 2, 0, 3), Text(64, 0, 0, 0, 1) }

\* The embedding dimensions of the models EMBEDDING_MODEL may name
Dims == {384, 768}

\* A file that may be missing: NoFile, or File(x) holding x
NoFile == <<>>
File(x) == <<x>>
Content(f) == f[1]

DEFAULT_TOP_K == 5
SIMILARITY_THRESHOLD == 10

\* faiss.IndexIDMap(faiss.IndexFlatIP(dim)) (lines 74-75)
NewIndex(dim) == [dim |-> dim, vecs |-> <<>>]
ntotal(index) == Len(index.vecs)

\* _calculate_kb_hash: md5 of the chunks joined by newlines.  No chunk holds
\* a newline, so two lists have the same digest exactly when they are equal.
calculate_kb_hash(kb) == [md5 |-> kb]

\* store_chunk (database/manager.py 198-246): a row [text, vid] unless a row
\* with the same chunk_hash exists; nothing without a connection.
store_chunk(db, docs, text, vid) ==
    IF db # "ok" THEN docs
    ELSE IF \E r \in docs : r.text = text THEN docs
    ELSE docs \cup {[text |-> text, vid |-> vid]}

RECURSIVE store_chunks(_, _, _, _, _)
store_chunks(db, docs, texts, ids, i) ==
    IF i > Len(texts) THEN docs
    ELSE store_chunks(db, store_chunk(db, docs, texts[i], ids[i]), texts, ids, i + 1)

\* embedding_model.encode(text): the vector as the model returns it.
\* normalized: faiss.normalize_L2 has been applied to it.
encode(text) == [src |-> text, normalized |-> FALSE]

\* faiss.normalize_L2 (lines 150 and 284)
normalize_L2(v) == [v EXCEPT !.normalized = TRUE]

\* Line 153: the id of the first vector of a batch
start_id(kb) == Len(kb)

\* _generate_and_store_embeddings(texts, source_file), called with
\* self.knowledge_base = kb.  encodeOk: embedding_model.encode returns.
\* add_with_ids raises when the vectors' dimension (that of the running
\* model) is not the index's.  -> [raised, index, docs]
generate_and_store_embeddings(kb, index, dim, db, docs, texts, encodeOk) ==
    IF ~encodeOk \/ index.dim # dim
    THEN [raised |-> TRUE, index |-> index, docs |-> docs]
    ELSE LET ids == [k \in 1..Len(texts) |-> start_id(kb) + k - 1]
             added == [k \in 1..Len(texts) |->
                          [id |-> ids[k]] @@ normalize_L2(encode(texts[k]))]
         IN  [raised |-> FALSE,
              index |-> [index EXCEPT !.vecs = @ \o added],
              docs |-> IF db = "none" THEN docs
                       ELSE store_chunks(db, docs, texts, ids, 1)]

\* _save_cached_data: the knowledge base, the index and the hash are written
\* in this order; an exception ends the writing (it is logged).  written: the
\* number of files written before that, 3 when none is raised.
save_cached_data(c, kb, index, written) ==
    [kb |-> IF written >= 1 THEN File(kb) ELSE c.kb,
     index |-> IF written >= 2 THEN File(index) ELSE c.index,
     hash |-> IF written >= 3 THEN File(calculate_kb_hash(kb)) ELSE c.hash]

\* What _load_cached_data finds: "absent" (a file is missing), "bad_kb"
\* (pickle.load raises), "stale" (hash mismatch), "bad_index" (read_index
\* raises) or "good".  read: what reading the files does, "ok", "bad_kb" or
\* "bad_index".
cache_state(c, read) ==
    IF c.kb = NoFile \/ c.index = NoFile \/ c.hash = NoFile THEN "absent"
    ELSE IF read = "bad_kb" THEN "bad_kb"
    ELSE IF Content(c.hash) # calculate_kb_hash(Content(c.kb)) THEN "stale"
    ELSE IF read = "bad_index" THEN "bad_index"
    ELSE "good"

\* _load_cached_data, from the object's kb and index -> [loaded, kb, index].
\* Line 109 assigns knowledge_base before line 110 reads the index.
load_cached_data(c, kb, index, read) ==
    LET st == cache_state(c, read)
    IN  IF st = "good"
        THEN [loaded |-> TRUE, kb |-> Content(c.kb), index |-> Content(c.index)]
        ELSE IF st = "bad_index"
        THEN [loaded |-> FALSE, kb |-> Content(c.kb), index |-> index]
        ELSE [loaded |-> FALSE, kb |-> kb, index |-> index]

\* load_knowledge_base, from the freshly constructed object.  default: the
\* chunks smart_chunk makes of the default corpus file, or NoFile.
\* -> [kb, index, cache, docs]
load_knowledge_base(c, dim, db, docs, default, read, encodeOk, written) ==
    LET ld == load_cached_data(c, <<>>, NewIndex(dim), read)
        kb == IF default = NoFile THEN MinimalKB ELSE Content(default)
        gen == generate_and_store_embeddings(kb, ld.index, dim, db, docs, kb, encodeOk)
    IN  IF ld.loaded
        THEN [kb |-> ld.kb, index |-> ld.index, cache |-> c, docs |-> docs]
        ELSE IF kb = <<>>
        THEN [kb |-> kb, index |-> ld.index, cache |-> c, docs |-> docs]
        ELSE IF gen.raised
        THEN [kb |-> kb, index |-> gen.index, cache |-> c, docs |-> gen.docs]
        ELSE [kb |-> kb, index |-> gen.index,
              cache |-> save_cached_data(c, kb, gen.index, written),
              docs |-> gen.docs]

\* update_knowledge_base_from_pdf.  new_chunks: what smart_chunk makes of the
\* extracted text (<<>>: no content or no valid chunk).
\* -> [ok, kb, index, cache, docs]
update_knowledge_base_from_pdf(kb, index, dim, c, db, docs, new_chunks, encodeOk, written) ==
    LET extended == kb \o new_chunks
        gen == generate_and_store_embeddings(extended, index, dim, db, docs,
                                             new_chunks, encodeOk)
    IN  IF new_chunks = <<>>
        THEN [ok |-> FALSE, kb |-> kb, index |-> index, cache |-> c, docs |-> docs]
        ELSE IF gen.raised
        THEN [ok |-> FALSE, kb |-> extended, index |-> index, cache |-> c, docs |-> docs]
        ELSE [ok |-> TRUE, kb |-> extended, index |-> gen.index,
              cache |-> save_cached_data(c, extended, gen.index, written),
              docs |-> gen.docs]

-----------------------------------------------------------------------------
(* Retrieval.  A query is [len, words, rel]: len(query), the words         *)
(* re.findall(r'\w+', query.lower()) finds (those of Words, in order, with *)
(* repetitions), and the set of texts the embedding model places near it.  *)

\* The cosine similarity of the query's and the text's embeddings
similarity(q, text) == IF text \in q.rel THEN 50 ELSE 5

\* The first k positions of S in descending order of scores, equal scores in
\* ascending order of position
RECURSIVE ranked(_, _, _)
ranked(scores, S, k) ==
    IF k = 0 \/ S = {} THEN <<>>
    ELSE LET best == CHOOSE p \in S :
                         \A r \in S : scores[p] > scores[r]
                                      \/ (scores[p] = scores[r] /\ p <= r)
         IN  <<best>> \o ranked(scores, S \ {best}, k - 1)

\* faiss_index.search(query_embedding, search_k): the search_k best vectors
\* by inner product, as [score, id]
search(index, q, search_k) ==
    LET scores == [p \in 1..Len(index.vecs) |-> similarity(q, index.vecs[p].src)]
        order == ranked(scores, 1..Len(index.vecs), search_k)
    IN  [k \in 1..Len(order) |-> [score |-> scores[order[k]], id |-> index.vecs[order[k]].id]]

ChunkLens(chunks) == [k \in 1..Len(chunks) |-> chunks[k].len]

\* Lines 323-325: the summed counts of the query words longer than 3 characters
RECURSIVE keyword_score(_, _)
keyword_score(chunk, words) ==
    IF words = <<>> THEN 0
    ELSE (IF WordLen(Head(words)) > 3 THEN chunk.cnt[Head(words)] ELSE 0)
         + keyword_score(chunk, Tail(words))

\* _fallback_keyword_search whose sort puts the later of two chunks with
\* equal scores first
fallback_keyword_search_unstable(kb, q, top_k, trim) ==
    LET scores == [p \in 1..Len(kb) |-> keyword_score(kb[p], q.words)]
        scored == {p \in 1..Len(kb) : scores[p] > 0}
        \* positions mirrored, so that ranked breaks ties towards the end
        mirrored == [p \in 1..Len(kb) |-> scores[Len(kb) + 1 - p]]
        order == ranked(mirrored, {Len(kb) + 1 - p : p \in scored}, top_k * 2)
        relevant_chunks == [k \in 1..Len(order) |-> kb[Len(kb) + 1 - order[k]]]
    IN  [path |-> "fallback", chunks |-> relevant_chunks,
         ctx |-> truncate_context(ChunkLens(relevant_chunks), q.len, SystemPromptLen, trim)]

\* _fallback_keyword_search(query, top_k) -> [path, chunks, ctx]
fallback_keyword_search(kb, q, top_k, trim) ==
    LET scores == [p \in 1..Len(kb) |-> keyword_score(kb[p], q.words)]
        scored == {p \in 1..Len(kb) : scores[p] > 0}
        order == ranked(scores, scored, top_k * 2)
        relevant_chunks == [k \in 1..Len(order) |-> kb[order[k]]]
    IN  [path |-> "fallback", chunks |-> relevant_chunks,
         ctx |-> truncate_context(ChunkLens(relevant_chunks), q.len, SystemPromptLen, trim)]

\* Lines 290-300: the search results that go into the context
select_results(res, thr) ==
    LET passing == SelectSeq(res, LAMBDA r : r.id # -1 /\ r.score >= thr)
    IN  IF passing # <<>> THEN passing
        ELSE IF Len(res) > 0 /\ res[1].id # -1 THEN <<res[1]>>
        ELSE <<>>

\* Line 287
search_k(top_k, n) == Min(top_k * 3, n)

\* What the try block of lines 280-306 raises: "encode" (the embedding model
\* fails), "dimension" (faiss rejects a query vector of another dimension
\* than the index's), "index" (knowledge_base[idx] with idx past the end), or
\* "none"
search_error(kb, index, dim, picked, encodeOk) ==
    IF ~encodeOk THEN "encode"
    ELSE IF index.dim # dim THEN "dimension"
    ELSE IF \E k \in 1..Len(picked) : picked[k].id >= Len(kb) THEN "index"
    ELSE "none"

\* find_relevant_context whose except branch returns the empty string
find_relevant_context_giving_up(kb, index, dim, q, top_k_arg, thr_arg, encodeOk, trim) ==
    LET top_k == IF top_k_arg = 0 THEN DEFAULT_TOP_K ELSE top_k_arg
        thr == IF thr_arg = 0 THEN SIMILARITY_THRESHOLD ELSE thr_arg
        res == search(index, q, search_k(top_k, ntotal(index)))
        picked == select_results(res, thr)
        relevant_chunks == [k \in 1..Len(picked) |-> kb[picked[k].id + 1]]
        err == search_error(kb, index, dim, picked, encodeOk)
        query_embedding == normalize_L2(encode(q))
    IN  [searched |-> IF kb = <<>> \/ ntotal(index) = 0 \/ ~encodeOk
                      THEN <<>> ELSE <<query_embedding>>] @@
        IF kb = <<>> \/ ntotal(index) = 0
        THEN [path |-> "none", err |-> "none", chunks |-> <<>>, ctx |-> EmptyContext]
        ELSE IF err # "none"
        THEN [path |-> "none", err |-> err, chunks |-> <<>>, ctx |-> EmptyContext]
        ELSE [path |-> "vector", err |-> "none", chunks |-> relevant_chunks,
              ctx |-> truncate_context(ChunkLens(relevant_chunks), q.len,
                                       SystemPromptLen, trim)]

\* find_relevant_context whose guard of line 276 tests knowledge_base alone,
\* so that the search of an empty index ends in the except branch
find_relevant_context_unguarded(kb, index, dim, q, top_k_arg, thr_arg, encodeOk, trim) ==
    LET top_k == IF top_k_arg = 0 THEN DEFAULT_TOP_K ELSE top_k_arg
        thr == IF thr_arg = 0 THEN SIMILARITY_THRESHOLD ELSE thr_arg
        res == search(index, q, search_k(top_k, ntotal(index)))
        picked == select_results(res, thr)
        relevant_chunks == [k \in 1..Len(picked) |-> kb[picked[k].id + 1]]
        err == search_error(kb, index, dim, picked, encodeOk)
        query_embedding == normalize_L2(encode(q))
    IN  [searched |-> IF kb = <<>> \/ ntotal(index) = 0 \/ ~encodeOk
                      THEN <<>> ELSE <<query_embedding>>] @@
        IF kb = <<>>
        THEN [path |-> "none", err |-> "none", chunks |-> <<>>, ctx |-> EmptyContext]
        ELSE IF err # "none" \/ ntotal(index) = 0
        THEN [err |-> err] @@ fallback_keyword_search(kb, q, top_k, trim)
        ELSE [path |-> "vector", err |-> "none", chunks |-> relevant_chunks,
              ctx |-> truncate_context(ChunkLens(relevant_chunks), q.len,
                                       SystemPromptLen, trim)]

\* find_relevant_context(query, top_k, similarity_threshold); 0 stands for an
\* argument left out (and for 0 itself: both are falsy in lines 273-274).
\* encodeOk: embedding_model.encode returns.  A query vector of another
\* dimension than the index's and a result id past the end of
\* knowledge_base raise inside the try block, and line 308 catches them.
\* searched: the vectors handed to faiss_index.search.
\* -> [path, err, chunks, ctx, searched]
find_relevant_context(kb, index, dim, q, top_k_arg, thr_arg, encodeOk, trim) ==
    LET top_k == IF top_k_arg = 0 THEN DEFAULT_TOP_K ELSE top_k_arg
        thr == IF thr_arg = 0 THEN SIMILARITY_THRESHOLD ELSE thr_arg
        res == search(index, q, search_k(top_k, ntotal(index)))
        picked == select_results(res, thr)
        relevant_chunks == [k \in 1..Len(picked) |-> kb[picked[k].id + 1]]
        err == search_error(kb, index, dim, picked, encodeOk)
        query_embedding == normalize_L2(encode(q))
    IN  [searched |-> IF kb = <<>> \/ ntotal(index) = 0 \/ ~encodeOk
                      THEN <<>> ELSE <<query_embedding>>] @@
        IF kb = <<>> \/ ntotal(index) = 0
        THEN [path |-> "none", err |-> "none", chunks |-> <<>>, ctx |-> EmptyContext]
        ELSE IF err # "none"
        THEN [err |-> err] @@ fallback_keyword_search(kb, q, top_k, trim)
        ELSE [path |-> "vector", err |-> "none", chunks |-> relevant_chunks,
              ctx |-> truncate_context(ChunkLens(relevant_chunks), q.len,
                                       SystemPromptLen, trim)]

-----------------------------------------------------------------------------
(* Response generation and the /chat endpoint.                             *)
(* A response is "answer" (what the LLM returned) or "error_msg" (the      *)
(* apology of line 410); llm is the list of outcomes, "ok" or "raise", of  *)
(* the successive calls of client.chat.completions.create, of which        *)
(* generate_response makes the first.  fails is the set of database        *)
(* statements that raise mysql.connector.Error during the request, each of *)
(* which its DatabaseManager method catches.                               *)

TokenLimit == 5500
ContextPieces == 2

\* Lines 376-379: context.split('\n\n')[:2], joined again; the pieces of a
\* context are the candidates packed into it
reduce_context(chunks, ctx) ==
    IF ctx.full + (IF ctx.partial > 0 THEN 1 ELSE 0) <= ContextPieces THEN ctx
    ELSE [ctx EXCEPT !.full = ContextPieces, !.partial = 0,
                     !.len = JoinLen(SubSeq(chunks, 1, ContextPieces), 2)]

\* DatabaseManager.log_search -> the number of rows of search_logs
log_search(db, logs, fails) ==
    IF db = "ok" /\ "log" \notin fails THEN logs + 1 ELSE logs

\* generate_response with an except branch that raises again, as the one of
\* _generate_and_store_embeddings does
generate_response_reraising(kb, index, dim, db, logs, q, top_k, thr, encodeOk, trim, llm, fails) ==
    LET found == find_relevant_context(kb, index, dim, q, top_k, thr, encodeOk, trim)
        logged == IF db # "none" THEN log_search(db, logs, fails) ELSE logs
    IN  IF llm[1] = "ok"
        THEN [raised |-> FALSE, text |-> "answer", calls |-> 1, logs |-> logged,
              ctx |-> found.ctx]
        ELSE [raised |-> TRUE, text |-> "error_msg", calls |-> 1, logs |-> logged,
              ctx |-> found.ctx]

\* generate_response with a second call of the LLM after a failed first one
generate_response_retrying(kb, index, dim, db, logs, q, top_k, thr, encodeOk, trim, llm, fails) ==
    LET found == find_relevant_context(kb, index, dim, q, top_k, thr, encodeOk, trim)
        logged == IF db # "none" THEN log_search(db, logs, fails) ELSE logs
    IN  IF llm[1] = "ok"
        THEN [raised |-> FALSE, text |-> "answer", calls |-> 1, logs |-> logged,
              ctx |-> found.ctx]
        ELSE [raised |-> FALSE,
              text |-> IF llm[2] = "ok" THEN "answer" ELSE "error_msg",
              calls |-> 2, logs |-> logged, ctx |-> found.ctx]

\* generate_response(query), find_relevant_context bound to the request's
\* top_k and similarity_threshold as /chat binds it.
\* -> [raised, text, calls, logs, ctx]
generate_response(kb, index, dim, db, logs, q, top_k, thr, encodeOk, trim, llm, fails) ==
    LET found == find_relevant_context(kb, index, dim, q, top_k, thr, encodeOk, trim)
        total_tokens == estimate_response_tokens(found.ctx.len, q.len, SystemPromptLen)
        context == IF total_tokens > TokenLimit
                   THEN reduce_context(ChunkLens(found.chunks), found.ctx)
                   ELSE found.ctx
        logged == IF db # "none" THEN log_search(db, logs, fails) ELSE logs
    IN  IF llm[1] = "ok"
        THEN [raised |-> FALSE, text |-> "answer", calls |-> 1, logs |-> logged,
              ctx |-> context]
        ELSE [raised |-> FALSE, text |-> "error_msg", calls |-> 1, logs |-> logged,
              ctx |-> context]

\* DatabaseManager.create_chat_session -> [id, sessions]
create_chat_session(db, sessions, user, fails) ==
    IF db # "ok" \/ "create" \in fails
    THEN [id |-> -1, sessions |-> sessions]
    ELSE [id |-> Len(sessions) + 1,
          sessions |-> Append(sessions, [user |-> user, active |-> TRUE, count |-> 0])]

\* DatabaseManager.get_session_owner -> the user_id or None
get_session_owner(db, sessions, session_id, fails) ==
    IF db # "ok" \/ "owner" \in fails THEN None
    ELSE IF session_id \in 1..Len(sessions) /\ sessions[session_id].active
         THEN sessions[session_id].user
         ELSE None

\* DatabaseManager.store_chat_message -> [sessions, messages]
store_chat_message(db, sessions, messages, session_id, user, response, fails) ==
    IF db # "ok" \/ "store" \in fails
    THEN [sessions |-> sessions, messages |-> messages]
    ELSE [messages |-> Append(messages, [session |-> session_id, user |-> user,
                                         response |-> response]),
          sessions |-> [k \in 1..Len(sessions) |->
                           IF k = session_id /\ sessions[k].user = user
                           THEN [sessions[k] EXCEPT !.count = @ + 1]
                           ELSE sessions[k]]]

\* validate_json_request(data, ['message']): NoMessage stands for a body
\* that is not JSON, has no message, or has a blank one
NoMessage == <<>>
Message(q) == <<q>>
validate_json_request(message) == message # NoMessage

\* validate_search_params(top_k, similarity_threshold)
validate_search_params(top_k, thr) ==
    top_k >= 1 /\ top_k <= 20 /\ thr >= 0 /\ thr <= 100

\* What /chat answers and leaves in the tables.  req: [user, message,
\* session_id (0: none given), top_k, thr]; rag: current_app.rag_system is
\* set.  -> [status, response, generated, calls, session_id, sessions,
\* messages, logs]
chat(rag, kb, index, dim, db, sessions, messages, logs, req, encodeOk, trim, llm, fails) ==
    LET refuse(code) == [status |-> code, response |-> None, generated |-> FALSE,
                         calls |-> 0, session_id |-> req.session_id,
                         sessions |-> sessions, messages |-> messages, logs |-> logs]
        created == IF req.session_id = 0 /\ db = "ok"
                   THEN create_chat_session(db, sessions, req.user, fails)
                   ELSE [id |-> req.session_id, sessions |-> sessions]
        session_id == created.id
        gen == generate_response(kb, index, dim, db, logs, req.message[1], req.top_k,
                                 req.thr, encodeOk, trim, llm, fails)
        stored == IF session_id # 0 /\ db = "ok"
                  THEN store_chat_message(db, created.sessions, messages, session_id,
                                          req.user, gen.text, fails)
                  ELSE [sessions |-> created.sessions, messages |-> messages]
    IN  IF ~rag THEN refuse(503)
        ELSE IF ~validate_json_request(req.message) THEN refuse(400)
        ELSE IF ~validate_search_params(req.top_k, req.thr) THEN refuse(400)
        ELSE IF session_id # 0 /\ db = "none"
        THEN [refuse(500) EXCEPT !.sessions = created.sessions, !.session_id = session_id]
        ELSE IF session_id # 0
                /\ get_session_owner(db, created.sessions, session_id, fails) # req.user
        THEN [refuse(403) EXCEPT !.sessions = created.sessions, !.session_id = session_id]
        ELSE IF gen.raised
        THEN [refuse(500) EXCEPT !.sessions = created.sessions, !.session_id = session_id,
                                 !.generated = TRUE, !.calls = gen.calls, !.logs = gen.logs]
        ELSE [status |-> 200, response |-> gen.text, generated |-> TRUE,
              calls |-> gen.calls, session_id |-> session_id,
              sessions |-> stored.sessions, messages |-> stored.messages,
              logs |-> gen.logs]

\* DatabaseManager.get_user_chat_messages(user_id, session_id) -> the rows
get_user_chat_messages(db, messages, user, session_id, fails) ==
    IF db # "ok" \/ "messages" \in fails THEN <<>>
    ELSE SelectSeq(messages, LAMBDA m : m.session = session_id /\ m.user = user)

\* DatabaseManager.delete_user_chat_session(session_id, user_id)
\* -> [ok, sessions]; ok: the UPDATE matched a row
delete_user_chat_session(db, sessions, session_id, user, fails) ==
    IF db # "ok" \/ "delete" \in fails
    THEN [ok |-> FALSE, sessions |-> sessions]
    ELSE [ok |-> session_id \in 1..Len(sessions) /\ sessions[session_id].user = user,
          sessions |-> [k \in 1..Len(sessions) |->
                           IF k = session_id /\ sessions[k].user = user
                           THEN [sessions[k] EXCEPT !.active = FALSE]
                           ELSE sessions[k]]]

\* GET /chats/<session_id> without the check of lines 263-265 and with the
\* rows selected by session alone
get_user_chat_history_unchecked(rag, db, sessions, messages, user, session_id, fails) ==
    IF ~rag \/ db # "ok" THEN [status |-> 503, messages |-> <<>>]
    ELSE [status |-> 200,
          messages |-> SelectSeq(messages, LAMBDA m : m.session = session_id)]

\* GET /chats/<session_id> (get_user_chat_history) -> [status, messages]
get_user_chat_history(rag, db, sessions, messages, user, session_id, fails) ==
    IF ~rag \/ db # "ok" THEN [status |-> 503, messages |-> <<>>]
    ELSE IF get_session_owner(db, sessions, session_id, fails) # user
    THEN [status |-> 403, messages |-> <<>>]
    ELSE [status |-> 200,
          messages |-> get_user_chat_messages(db, messages, user, session_id, fails)]

\* GET /chats/<session_id>/export (export_user_chat_session)
\* -> [status, messages]
export_user_chat_session(rag, db, sessions, messages, user, session_id, fails) ==
    LET rows == get_user_chat_messages(db, messages, user, session_id, fails)
    IN  IF ~rag \/ db # "ok" THEN [status |-> 503, messages |-> <<>>]
        ELSE IF get_session_owner(db, sessions, session_id, fails) # user
        THEN [status |-> 403, messages |-> <<>>]
        ELSE IF rows = <<>> THEN [status |-> 404, messages |-> <<>>]
        ELSE [status |-> 200, messages |-> rows]

\* DELETE /chats/<session_id> (the endpoint delete_user_chat_session)
\* -> [status, sessions]
delete_chat_session(rag, db, sessions, user, session_id, fails) ==
    LET deleted == delete_user_chat_session(db, sessions, session_id, user, fails)
    IN  IF ~rag \/ db # "ok" THEN [status |-> 503, sessions |-> sessions]
        ELSE IF deleted.ok THEN [status |-> 200, sessions |-> deleted.sessions]
        ELSE [status |-> 404, sessions |-> deleted.sessions]

-----------------------------------------------------------------------------
(* The RAG system as a state machine: the process is constructed (and      *)
(* constructed again after a restart, over the files and tables the        *)
(* previous run left), PDFs are uploaded and queries are answered.         *)

MaxOps == 2        \* restarts, uploads and chat requests in a behaviour

DbStates == {"none", "noconn", "ok"}
\* The chunk lists smart_chunk makes of the documents at hand
Docs == { <<>>, <<Text(800, 0, 2, 0, 3)>>, <<Text(800, 0, 2, 0, 3), Text(64, 0, 0, 0, 1)>> }
Writes == 0..3
NoCache == [kb |-> NoFile, index |-> NoFile, hash |-> NoFile]
Defaults == {NoFile} \cup {File(d) : d \in Docs}
Reads == {"ok", "bad_kb", "bad_index"}
Trims == {0, 120}
AllTexts == Corpus \cup {MinimalKB[k] : k \in 1..Len(MinimalKB)}

Queries ==
    { [len |-> 20,   words |-> <<"pregnancy">>, rel |-> {MinimalKB[1], MinimalKB[2]}],
      [len |-> 20,   words |-> <<"eat">>, rel |-> {}],
      [len |-> 20,   words |-> <<"healthy", "healthy">>, rel |-> AllTexts],
      [len |-> 9384, words |-> <<"healthy">>, rel |-> {Text(800, 0, 2, 0, 3)}],
      [len |-> 9664, words |-> <<"healthy">>, rel |-> {Text(800, 0, 2, 0, 3)}],
      [len |-> 9800, words |-> <<"pregnancy">>, rel |-> {Text(64, 0, 0, 0, 1)}] }
TopKArgs == {0, 1, 2}
ThresholdArgs == {0, 10, 60}

Idle == [op |-> "none"]
PureIdle == input = Idle

\* The subsystems a specification leaves alone stay as they start: the daily
\* recommendation index and the risk model's tables empty, the retrieval
\* method the one the class defines, no /chat request in a thread
MaxRequests == 2      \* /chat requests served by concurrent threads
RequestIds == 1..MaxRequests
OriginalMethod == <<>>
NoDailyFiles == [index |-> NoFile, chunks |-> NoFile, metadata |-> NoFile]
NewVectorDatabase(files) == [index |-> <<>>, document_chunks |-> <<>>, files |-> files]
NoPredictions == [users |-> <<>>, predictions |-> <<>>, next_id |-> 1]
NotStarted == [pc |-> "waiting"]
OthersIdle ==
    /\ vector_database = NewVectorDatabase(NoDailyFiles)
    /\ prediction_db = NoPredictions
    /\ find_method = OriginalMethod
    /\ requests = [r \in RequestIds |-> NotStarted]
    /\ recommendations = <<>>

ChatIdle == chat_sessions = <<>> /\ chat_messages = <<>> /\ search_logs = 0

\* VectorRAGSystem.__init__ on the files in cache and the rows in
\* document_chunks: the fields are set (lines 46-82), then
\* load_knowledge_base runs (line 85)
Construct(c, docs, dim, db, default, read, encodeOk, written) ==
    \E r \in {load_knowledge_base(c, dim, db, docs, default, read, encodeOk, written)} :
        /\ knowledge_base' = r.kb
        /\ faiss_index' = r.index
        /\ embedding_dim' = dim
        /\ cache' = r.cache
        /\ db_manager' = db
        /\ document_chunks' = r.docs
        /\ last' = [op |-> "startup", found |-> cache_state(c, read),
                    mismatch |-> (c.index # NoFile /\ Content(c.index).dim # dim),
                    encodeOk |-> encodeOk]

\* The first start: no cache file, no row.  Dfs, DbS, Ws: the default
\* knowledge-base files, database states and cache-write outcomes considered.
InitWith(Dfs, DbS, Ws) ==
    \E default \in Dfs, db \in DbS, encodeOk \in BOOLEAN, written \in Ws :
        \E dim \in {CHOOSE d \in Dims : \A e \in Dims : d <= e} :
        \E r \in {load_knowledge_base(NoCache, dim, db, {}, default, "ok", encodeOk, written)} :
            /\ knowledge_base = r.kb
            /\ faiss_index = r.index
            /\ embedding_dim = dim
            /\ cache = r.cache
            /\ db_manager = db
            /\ document_chunks = r.docs
            /\ last = [op |-> "startup", found |-> "absent", mismatch |-> FALSE,
                       encodeOk |-> encodeOk]
            /\ ops = 0
            /\ ChatIdle /\ PureIdle /\ OthersIdle

\* The process is started again, perhaps with another EMBEDDING_MODEL
RestartWith(DbS, Ws) ==
    \E dim \in Dims, db \in DbS, default \in Defaults, read \in Reads,
       encodeOk \in BOOLEAN, written \in Ws :
        /\ ops < MaxOps
        /\ ops' = ops + 1
        /\ Construct(cache, document_chunks, dim, db, default, read, encodeOk, written)
        /\ UNCHANGED <<chat_sessions, chat_messages, search_logs, input, otherVars>>

\* POST /upload -> update_knowledge_base_from_pdf
UploadWith(Ws) ==
    \E new_chunks \in Docs, encodeOk \in BOOLEAN, written \in Ws :
        /\ ops < MaxOps
        /\ ops' = ops + 1
        /\ \E r \in {update_knowledge_base_from_pdf(knowledge_base, faiss_index,
                        embedding_dim, cache, db_manager, document_chunks,
                        new_chunks, encodeOk, written)} :
               /\ knowledge_base' = r.kb
               /\ faiss_index' = r.index
               /\ cache' = r.cache
               /\ document_chunks' = r.docs
               /\ last' = [op |-> "upload", ok |-> r.ok, before |-> Len(knowledge_base),
                           new |-> Len(new_chunks)]
        /\ UNCHANGED <<embedding_dim, db_manager, chat_sessions, chat_messages,
                       search_logs, input, otherVars>>

\* The last operation was a search
Searched == last.op = "find"

\* A search request -> find_relevant_context
Find ==
    \E q \in Queries, top_k \in TopKArgs, thr \in ThresholdArgs,
       encodeOk \in BOOLEAN, trim \in Trims :
        /\ ~Searched
        /\ last' = [op |-> "find", q |-> q,
                    top_k |-> IF top_k = 0 THEN DEFAULT_TOP_K ELSE top_k,
                    encodeOk |-> encodeOk]
                   @@ find_relevant_context(knowledge_base, faiss_index, embedding_dim,
                                            q, top_k, thr, encodeOk, trim)
        /\ UNCHANGED <<ragVars, dbVars, ops, input, otherVars>>

(* Ingestion: every database state and every outcome of saving the cache *)
Init == InitWith(Defaults, DbStates, Writes)
Restart == RestartWith(DbStates, Writes)
Upload == UploadWith(Writes)
Next == Restart \/ Upload
Spec == Init /\ [][Next]_vars

(* Retrieval, over the chunk lists and indexes ingestion leaves.  Retrieval  *)
(* reads neither the database nor the cache files, so one database state and *)
(* the saves that succeed are enough to reach every (knowledge_base,         *)
(* faiss_index, embedding_dim) that ingestion reaches.  A search assigns no  *)
(* field of the system: the state after it differs from the state before it  *)
(* in `last` alone, which every operation overwrites, so the operations      *)
(* that follow a search are those that follow the state it ran in.           *)
InitFind == InitWith(Defaults, {"none"}, {3})
RestartFind == ~Searched /\ RestartWith({"none"}, {3})
UploadFind == ~Searched /\ UploadWith({3})
NextFind == RestartFind \/ UploadFind \/ Find
SpecFind == InitFind /\ [][NextFind]_vars

(* Retrieval with the similarity threshold the caller passes, as /chat and  *)
(* /search do after validate_search_params has accepted it (0 to 1, here    *)
(* hundredths).  last.threshold is the threshold passed.                    *)
FindWithThreshold ==
    \E q \in Queries, top_k \in TopKArgs, thr \in ThresholdArgs,
       encodeOk \in BOOLEAN, trim \in Trims :
        /\ ~Searched
        /\ last' = [op |-> "find", q |-> q,
                    top_k |-> IF top_k = 0 THEN DEFAULT_TOP_K ELSE top_k,
                    threshold |-> thr,
                    encodeOk |-> encodeOk]
                   @@ find_relevant_context(knowledge_base, faiss_index, embedding_dim,
                                            q, top_k, thr, encodeOk, trim)
        /\ UNCHANGED <<ragVars, dbVars, ops, input, otherVars>>
NextThreshold == RestartFind \/ UploadFind \/ FindWithThreshold
SpecThreshold == InitFind /\ [][NextThreshold]_vars

(* Restarts over a default corpus file that may have been edited since the  *)
(* cache was written.  input holds the file the process found at            *)
(* DEFAULT_KB_FILE when it started.                                         *)
RestartOnCorpus ==
    \E dim \in Dims, default \in Defaults, read \in Reads, encodeOk \in BOOLEAN :
        /\ ops < MaxOps
        /\ ops' = ops + 1
        /\ Construct(cache, document_chunks, dim, "none", default, read, encodeOk, 3)
        /\ input' = [op |-> "default_kb", file |-> default]
        /\ UNCHANGED <<chat_sessions, chat_messages, search_logs, otherVars>>
NextCorpus == RestartOnCorpus \/ UploadFind
SpecCorpus == InitFind /\ [][NextCorpus]_vars

(* The /chat endpoint, over the minimal knowledge base and every database   *)
(* state.  A request runs to its response in one step.                      *)
Users == {"alice", "bob"}
SessionIds == 0..2
DbStatements == {"create", "owner", "store", "log", "messages", "delete"}
\* No statement fails, one does, or all do
FailSets == {{}, DbStatements} \cup {{f} : f \in DbStatements}
LlmOutcomes == { <<"ok", "ok">>, <<"raise", "ok">>, <<"raise", "raise">> }
ChatQuery == [len |-> 20, words |-> <<"pregnancy">>, rel |-> {MinimalKB[1], MinimalKB[2]}]

\* The requests: to a process without a RAG system, without a message, with
\* a top_k out of range, and the valid ones
ChatCalls ==
    [rag : {FALSE}, user : {"alice"}, message : {Message(ChatQuery)}, session_id : {0},
     top_k : {1}, thr : {10}, encodeOk : {TRUE}, llm : {<<"ok", "ok">>}, fails : {{}}]
    \cup
    [rag : {TRUE}, user : {"alice"}, message : {NoMessage, Message(ChatQuery)},
     session_id : {0}, top_k : {21}, thr : {10}, encodeOk : {TRUE},
     llm : {<<"ok", "ok">>}, fails : {{}}]
    \cup
    [rag : {TRUE}, user : {"alice"}, message : {NoMessage}, session_id : {0},
     top_k : {1}, thr : {10}, encodeOk : {TRUE}, llm : {<<"ok", "ok">>}, fails : {{}}]
    \cup
    [rag : {TRUE}, user : Users, message : {Message(ChatQuery)}, session_id : SessionIds,
     top_k : {1}, thr : {10}, encodeOk : BOOLEAN, llm : LlmOutcomes, fails : FailSets]

\* POST /chat
Chat ==
    \E c \in ChatCalls :
        /\ ops < MaxOps
        /\ ops' = ops + 1
        /\ \E r \in {chat(c.rag, knowledge_base, faiss_index, embedding_dim, db_manager,
                         chat_sessions, chat_messages, search_logs,
                         [user |-> c.user, message |-> c.message,
                          session_id |-> c.session_id, top_k |-> c.top_k, thr |-> c.thr],
                         c.encodeOk, 0, c.llm, c.fails)} :
               /\ chat_sessions' = r.sessions
               /\ chat_messages' = r.messages
               /\ search_logs' = r.logs
               /\ last' = [op |-> "chat", rag |-> c.rag,
                           valid |-> (validate_json_request(c.message)
                                      /\ validate_search_params(c.top_k, c.thr)),
                           user |-> c.user, llm |-> c.llm, encodeOk |-> c.encodeOk,
                           status |-> r.status, response |-> r.response,
                           generated |-> r.generated, calls |-> r.calls,
                           given |-> c.session_id, session_id |-> r.session_id,
                           messages |-> <<>>]
        /\ UNCHANGED <<ragVars, db_manager, document_chunks, input, otherVars>>

\* The requests for a session's history, its export and its deletion
SessionCalls == [rag : BOOLEAN, user : Users, session_id : SessionIds, fails : FailSets]

\* GET /chats/<session_id>
History ==
    \E c \in SessionCalls :
        /\ ops < MaxOps
        /\ ops' = ops + 1
        /\ \E r \in {get_user_chat_history(c.rag, db_manager, chat_sessions, chat_messages,
                                          c.user, c.session_id, c.fails)} :
               last' = [op |-> "history", rag |-> c.rag, valid |-> TRUE, user |-> c.user,
                        given |-> c.session_id, status |-> r.status,
                        messages |-> r.messages]
        /\ UNCHANGED <<ragVars, dbVars, input, otherVars>>

\* GET /chats/<session_id>/export
Export ==
    \E c \in SessionCalls :
        /\ ops < MaxOps
        /\ ops' = ops + 1
        /\ \E r \in {export_user_chat_session(c.rag, db_manager, chat_sessions,
                                             chat_messages, c.user, c.session_id,
                                             c.fails)} :
               last' = [op |-> "export", rag |-> c.rag, valid |-> TRUE, user |-> c.user,
                        given |-> c.session_id, status |-> r.status,
                        messages |-> r.messages]
        /\ UNCHANGED <<ragVars, dbVars, input, otherVars>>

\* DELETE /chats/<session_id>
DeleteSession ==
    \E c \in SessionCalls :
        /\ ops < MaxOps
        /\ ops' = ops + 1
        /\ \E r \in {delete_chat_session(c.rag, db_manager, chat_sessions, c.user,
                                        c.session_id, c.fails)} :
               /\ chat_sessions' = r.sessions
               /\ last' = [op |-> "delete", rag |-> c.rag, valid |-> TRUE,
                           user |-> c.user, given |-> c.session_id,
                           status |-> r.status, messages |-> <<>>]
        /\ UNCHANGED <<ragVars, db_manager, document_chunks, chat_messages, search_logs,
                       input, otherVars>>

InitChat == InitWith({NoFile}, DbStates, {3})
NextChat == Chat \/ History \/ Export \/ DeleteSession
SpecChat == InitChat /\ [][NextChat]_vars

-----------------------------------------------------------------------------
(* The pure functions, applied to inputs drawn from bounded sets.  No      *)
(* system is constructed: the other variables stay as NoSystem sets them.  *)

NoSystem ==
    /\ knowledge_base = <<>>
    /\ faiss_index = NewIndex(CHOOSE d \in Dims : \A e \in Dims : d <= e)
    /\ embedding_dim = faiss_index.dim
    /\ cache = NoCache
    /\ db_manager = "none"
    /\ document_chunks = {}
    /\ ops = 0
    /\ ChatIdle /\ OthersIdle

MaxCand == 11      \* candidate chunks handed to truncate_context
CandLens == {51, 800}
QueryLens == {20, 9256, 9384, 9664, 9800}

InitTrunc ==
    /\ NoSystem
    /\ last = Idle
    /\ \E chunks \in SeqsUpTo(CandLens, MaxCand), qlen \in QueryLens, trim \in Trims :
           input = [op |-> "truncate_context", chunks |-> chunks, qlen |-> qlen,
                    trim |-> trim]

\* TokenManager.truncate_context(context_chunks, query, system_prompt)
Truncate ==
    /\ input.op = "truncate_context" /\ last = Idle
    /\ last' = [op |-> "truncate_context",
                avail |-> available_tokens(input.qlen, SystemPromptLen),
                ctx |-> truncate_context(input.chunks, input.qlen, SystemPromptLen,
                                         input.trim)]
    /\ UNCHANGED <<ragVars, dbVars, ops, input, otherVars>>

NextTrunc == Truncate
SpecTrunc == InitTrunc /\ [][NextTrunc]_vars

MaxSents == 3      \* sentences of a text handed to smart_chunk
SentLens == {30, 50, 400, 850}
Sentences == [len : SentLens, fix : {0, 1}]

\* The texts of at most MaxSents sentences, with a blank line after the k-th
RawTexts ==
    UNION { { <<SubSeq(s, 1, k), SubSeq(s, k + 1, Len(s))>> : k \in 0..Len(s) } :
            s \in SeqsUpTo(Sentences, MaxSents) }

InitChunk ==
    /\ NoSystem
    /\ last = Idle
    /\ \E raw \in RawTexts : input = [op |-> "smart_chunk", raw |-> raw]

\* TextChunker.smart_chunk(text)
Chunk ==
    /\ input.op = "smart_chunk" /\ last = Idle
    /\ last' = [op |-> "smart_chunk", chunks |-> smart_chunk(input.raw)]
    /\ UNCHANGED <<ragVars, dbVars, ops, input, otherVars>>

\* The text of a chunk as an argument of smart_chunk: one paragraph (the
\* chunks of one text hold no blank line) in which clean_text finds nothing
\* to separate, its sentences having gone through clean_text already
ChunkText(c) == <<[k \in 1..Len(c.sents) |-> [len |-> c.sents[k], fix |-> 0]]>>

\* smart_chunk(c) for a chunk c that smart_chunk returned
Rechunk ==
    /\ last.op = "smart_chunk"
    /\ \E k \in 1..Len(last.chunks) :
           last' = [op |-> "rechunk", chunk |-> last.chunks[k],
                    chunks |-> smart_chunk(ChunkText(last.chunks[k]))]
    /\ UNCHANGED <<ragVars, dbVars, ops, input, otherVars>>

NextChunk == Chunk \/ Rechunk
SpecChunk == InitChunk /\ [][NextChunk]_vars

-----------------------------------------------------------------------------
(* risk_predition_model: the prediction endpoints (api/prediction.py) over  *)
(* the tables users and predictions (model/database.py).  prediction_db is  *)
(* [users, predictions, next_id]: users the list of e-mails, a user's id    *)
(* its position; predictions the rows [id, user_id, data]; next_id the      *)
(* AUTO_INCREMENT value.  fails is the set of statements that raise         *)
(* mysql.connector.Error during the request; 0 stands for None.             *)

\* DatabaseManager.create_user(email) -> [id, pdb]
create_user(pdb, email, fails) ==
    IF "user" \in fails THEN [id |-> 0, pdb |-> pdb]
    ELSE IF \E k \in 1..Len(pdb.users) : pdb.users[k] = email
    THEN [id |-> CHOOSE k \in 1..Len(pdb.users) : pdb.users[k] = email, pdb |-> pdb]
    ELSE [id |-> Len(pdb.users) + 1, pdb |-> [pdb EXCEPT !.users = Append(@, email)]]

\* DatabaseManager.store_prediction -> [id, pdb]
store_prediction(pdb, user_id, data, fails) ==
    IF "insert" \in fails THEN [id |-> 0, pdb |-> pdb]
    ELSE [id |-> pdb.next_id,
          pdb |-> [pdb EXCEPT !.next_id = @ + 1,
                              !.predictions = Append(@, [id |-> pdb.next_id,
                                                         user_id |-> user_id,
                                                         data |-> data])]]

\* WHERE id = %s AND user_id = %s
Owned(row, prediction_id, user_id) == row.id = prediction_id /\ row.user_id = user_id

\* DatabaseManager.update_prediction -> [ok, pdb]
update_prediction(pdb, user_id, prediction_id, data, fails) ==
    IF "update" \in fails THEN [ok |-> FALSE, pdb |-> pdb]
    ELSE [ok |-> \E k \in 1..Len(pdb.predictions) :
                    /\ Owned(pdb.predictions[k], prediction_id, user_id)
                    /\ pdb.predictions[k].data # data,
          pdb |-> [pdb EXCEPT !.predictions =
                     [k \in 1..Len(@) |->
                         IF Owned(@[k], prediction_id, user_id)
                         THEN [@[k] EXCEPT !.data = data] ELSE @[k]]]]

\* get_prediction with the row selected by id alone
get_prediction_of_anyone(pdb, prediction_id, user_id, fails) ==
    IF "select" \in fails THEN <<>>
    ELSE SelectSeq(pdb.predictions, LAMBDA row : row.id = prediction_id)

\* DatabaseManager.get_prediction(prediction_id, user_id) -> the row, if any
get_prediction(pdb, prediction_id, user_id, fails) ==
    IF "select" \in fails THEN <<>>
    ELSE SelectSeq(pdb.predictions, LAMBDA row : Owned(row, prediction_id, user_id))

\* The rows of a list, the last one first
RECURSIVE Reversed(_)
Reversed(rows) == IF rows = <<>> THEN <<>> ELSE Reversed(Tail(rows)) \o <<Head(rows)>>

\* DatabaseManager.get_user_predictions(user_id, limit): the newest first
get_user_predictions(pdb, user_id, limit, fails) ==
    IF "select" \in fails THEN <<>>
    ELSE LET mine == Reversed(SelectSeq(pdb.predictions,
                                       LAMBDA row : row.user_id = user_id))
         IN  SubSeq(mine, 1, Min(limit, Len(mine)))

\* DatabaseManager.get_latest_prediction(user_id)
get_latest_prediction(pdb, user_id, fails) == get_user_predictions(pdb, user_id, 1, fails)

\* DatabaseManager.delete_prediction -> [ok, pdb]
delete_prediction(pdb, prediction_id, user_id, fails) ==
    IF "delete" \in fails THEN [ok |-> FALSE, pdb |-> pdb]
    ELSE [ok |-> \E k \in 1..Len(pdb.predictions) :
                    Owned(pdb.predictions[k], prediction_id, user_id),
          pdb |-> [pdb EXCEPT !.predictions =
                     SelectSeq(@, LAMBDA row : ~Owned(row, prediction_id, user_id))]]

\* A response: the status, the predictions in its body, the tables after the
\* request, the authenticated user's id as create_user gave it (0: not
\* looked up, or the lookup failed), and whether a statement on the table
\* predictions ran
Answer(status, data, pdb, auth, touched) ==
    [status |-> status, data |-> data, pdb |-> pdb, auth |-> auth, touched |-> touched]

\* The handlers.  req: [route, email, user_id, prediction_id, valid, data,
\* limit, predictorOk, fails]; valid: the body is JSON that
\* validate_input_data accepts; user_id: the one in the URL of the
\* /user/<user_id>/... routes.

\* POST /store
store_endpoint(pdb, req) ==
    LET user == create_user(pdb, req.email, req.fails)
        stored == store_prediction(user.pdb, user.id, req.data, req.fails)
    IN  IF ~req.valid THEN Answer(400, <<>>, pdb, 0, FALSE)
        ELSE IF user.id = 0 THEN Answer(500, <<>>, user.pdb, 0, FALSE)
        ELSE IF ~req.predictorOk THEN Answer(503, <<>>, user.pdb, user.id, FALSE)
        ELSE IF stored.id = 0 THEN Answer(500, <<>>, stored.pdb, user.id, TRUE)
        ELSE Answer(200, get_prediction(stored.pdb, stored.id, user.id, {}),
                    stored.pdb, user.id, TRUE)

\* Lines 227-254 and 649-676: the update once the user is known
update_for(pdb, user_id, req) ==
    LET existing == get_prediction(pdb, req.prediction_id, user_id, req.fails)
        updated == update_prediction(pdb, user_id, req.prediction_id, req.data, req.fails)
    IN  IF existing = <<>> THEN Answer(404, <<>>, pdb, user_id, TRUE)
        ELSE IF ~req.predictorOk THEN Answer(503, <<>>, pdb, user_id, TRUE)
        ELSE IF ~updated.ok THEN Answer(500, <<>>, updated.pdb, user_id, TRUE)
        ELSE Answer(200, get_prediction(updated.pdb, req.prediction_id, user_id, {}),
                    updated.pdb, user_id, TRUE)

\* PUT /update/<prediction_id>
update_endpoint(pdb, req) ==
    LET user == create_user(pdb, req.email, req.fails)
    IN  IF ~req.valid THEN Answer(400, <<>>, pdb, 0, FALSE)
        ELSE IF user.id = 0 THEN Answer(500, <<>>, user.pdb, 0, FALSE)
        ELSE update_for(user.pdb, user.id, req)

\* GET /get/<prediction_id>
get_endpoint(pdb, req) ==
    LET user == create_user(pdb, req.email, req.fails)
        prediction == get_prediction(user.pdb, req.prediction_id, user.id, req.fails)
    IN  IF user.id = 0 THEN Answer(500, <<>>, user.pdb, 0, FALSE)
        ELSE IF prediction = <<>> THEN Answer(404, <<>>, user.pdb, user.id, TRUE)
        ELSE Answer(200, prediction, user.pdb, user.id, TRUE)

\* GET /latest
get_latest(pdb, req) ==
    LET user == create_user(pdb, req.email, req.fails)
        prediction == get_latest_prediction(user.pdb, user.id, req.fails)
    IN  IF user.id = 0 THEN Answer(500, <<>>, user.pdb, 0, FALSE)
        ELSE IF prediction = <<>> THEN Answer(404, <<>>, user.pdb, user.id, TRUE)
        ELSE Answer(200, prediction, user.pdb, user.id, TRUE)

\* GET /history
get_history(pdb, req) ==
    LET user == create_user(pdb, req.email, req.fails)
    IN  IF user.id = 0 THEN Answer(500, <<>>, user.pdb, 0, FALSE)
        ELSE Answer(200, get_user_predictions(user.pdb, user.id, req.limit, req.fails),
                    user.pdb, user.id, TRUE)

\* DELETE /delete/<prediction_id>
delete_endpoint(pdb, req) ==
    LET user == create_user(pdb, req.email, req.fails)
        deleted == delete_prediction(user.pdb, req.prediction_id, user.id, req.fails)
    IN  IF user.id = 0 THEN Answer(500, <<>>, user.pdb, 0, FALSE)
        ELSE IF ~deleted.ok THEN Answer(404, <<>>, deleted.pdb, user.id, TRUE)
        ELSE Answer(200, <<>>, deleted.pdb, user.id, TRUE)

\* GET /user/<user_id>/predictions
get_predictions_by_user_id(pdb, req) ==
    LET user == create_user(pdb, req.email, req.fails)
    IN  IF user.id = 0 THEN Answer(500, <<>>, user.pdb, 0, FALSE)
        ELSE IF user.id # req.user_id THEN Answer(403, <<>>, user.pdb, user.id, FALSE)
        ELSE Answer(200, get_user_predictions(user.pdb, req.user_id, req.limit, req.fails),
                    user.pdb, user.id, TRUE)

\* GET /user/<user_id>/latest
get_latest_by_user_id(pdb, req) ==
    LET user == create_user(pdb, req.email, req.fails)
        prediction == get_latest_prediction(user.pdb, req.user_id, req.fails)
    IN  IF user.id = 0 THEN Answer(500, <<>>, user.pdb, 0, FALSE)
        ELSE IF user.id # req.user_id THEN Answer(403, <<>>, user.pdb, user.id, FALSE)
        ELSE IF prediction = <<>> THEN Answer(404, <<>>, user.pdb, user.id, TRUE)
        ELSE Answer(200, prediction, user.pdb, user.id, TRUE)

\* GET /user/<user_id>/prediction/<prediction_id>
get_prediction_by_user_id(pdb, req) ==
    LET user == create_user(pdb, req.email, req.fails)
        prediction == get_prediction(user.pdb, req.prediction_id, req.user_id, req.fails)
    IN  IF user.id = 0 THEN Answer(500, <<>>, user.pdb, 0, FALSE)
        ELSE IF user.id # req.user_id THEN Answer(403, <<>>, user.pdb, user.id, FALSE)
        ELSE IF prediction = <<>> THEN Answer(404, <<>>, user.pdb, user.id, TRUE)
        ELSE Answer(200, prediction, user.pdb, user.id, TRUE)

\* PUT /user/<user_id>/prediction/<prediction_id>
update_prediction_by_user_id(pdb, req) ==
    LET user == create_user(pdb, req.email, req.fails)
    IN  IF ~req.valid THEN Answer(400, <<>>, pdb, 0, FALSE)
        ELSE IF user.id = 0 THEN Answer(500, <<>>, user.pdb, 0, FALSE)
        ELSE IF user.id # req.user_id THEN Answer(403, <<>>, user.pdb, user.id, FALSE)
        ELSE update_for(user.pdb, req.user_id, req)

OwnRoutes == {"store", "update", "get", "latest", "history", "delete"}
UserIdRoutes == {"user_predictions", "user_latest", "user_prediction", "user_update"}

\* The handler of a route
Handle(pdb, req) ==
    CASE req.route = "store" -> store_endpoint(pdb, req)
      [] req.route = "update" -> update_endpoint(pdb, req)
      [] req.route = "get" -> get_endpoint(pdb, req)
      [] req.route = "latest" -> get_latest(pdb, req)
      [] req.route = "history" -> get_history(pdb, req)
      [] req.route = "delete" -> delete_endpoint(pdb, req)
      [] req.route = "user_predictions" -> get_predictions_by_user_id(pdb, req)
      [] req.route = "user_latest" -> get_latest_by_user_id(pdb, req)
      [] req.route = "user_prediction" -> get_prediction_by_user_id(pdb, req)
      [] req.route = "user_update" -> update_prediction_by_user_id(pdb, req)

PredictionIds == 1..2
UserIds == 1..2
PredictionData == {"first", "second"}
PredictionStatements == {"user", "insert", "select", "update", "delete"}
PredictionFails == {{}} \cup {{f} : f \in PredictionStatements}
\* The requests that write take every body and outcome, those that read
\* have no body
PredictionRequests(routes) ==
    [route : routes \cap {"store", "update", "user_update"}, email : Users,
     user_id : UserIds, prediction_id : PredictionIds, valid : BOOLEAN,
     data : PredictionData, limit : {10}, predictorOk : BOOLEAN, fails : PredictionFails]
    \cup
    [route : routes \ {"store", "update", "user_update"}, email : Users,
     user_id : UserIds, prediction_id : PredictionIds, valid : {TRUE},
     data : {"first"}, limit : {1, 10}, predictorOk : {TRUE}, fails : PredictionFails]

InitPrediction ==
    /\ NoSystem /\ PureIdle
    /\ last = Idle

\* What is kept of a request and of its response r
Served(req, r) ==
    [op |-> req.route, email |-> req.email, valid |-> req.valid,
     user_id |-> IF req.route \in UserIdRoutes THEN req.user_id ELSE 0,
     auth |-> r.auth, status |-> r.status, data |-> r.data, touched |-> r.touched]

\* A request to a route that takes the user from the token alone
OwnRequest ==
    \E req \in PredictionRequests(OwnRoutes) :
        /\ ops < MaxOps
        /\ ops' = ops + 1
        /\ \E r \in {Handle(prediction_db, req)} :
               /\ prediction_db' = r.pdb
               /\ last' = Served(req, r)
        /\ UNCHANGED <<ragVars, dbVars, input, vector_database, find_method, requests,
                       recommendations>>

\* A request to a route /user/<user_id>/...
UserIdRequest ==
    \E req \in PredictionRequests(UserIdRoutes) :
        /\ ops < MaxOps
        /\ ops' = ops + 1
        /\ \E r \in {Handle(prediction_db, req)} :
               /\ prediction_db' = r.pdb
               /\ last' = Served(req, r)
        /\ UNCHANGED <<ragVars, dbVars, input, vector_database, find_method, requests,
                       recommendations>>

NextPrediction == OwnRequest \/ UserIdRequest
SpecPrediction == InitPrediction /\ [][NextPrediction]_vars

-----------------------------------------------------------------------------
(* dailyrecommendationAI: VectorDatabase (vector_database.py).  Its index  *)
(* is a plain IndexFlatIP: the id of a vector is its position, counted     *)
(* from 0.  vector_database holds the object's index and document_chunks   *)
(* and the files save_vector_db writes.                                    *)

\* save_vector_db: the index, the chunks and the metadata are written in
\* this order; an exception ends the writing and is logged.  written: the
\* number of files written before that, 3 when none is raised.
save_vector_db(vdb, written) ==
    [vdb EXCEPT !.files =
        [index |-> IF written >= 1 THEN File(vdb.index) ELSE @.index,
         chunks |-> IF written >= 2 THEN File(vdb.document_chunks) ELSE @.chunks,
         metadata |-> IF written >= 3 THEN File(Len(vdb.document_chunks))
                      ELSE @.metadata]]

\* load_vector_db, from __init__: the three files are read in turn when all
\* of them exist; an exception ends the reading and is logged, what was
\* assigned before it stays.  read: "ok", "bad_index" or "bad_chunks"
load_vector_db(vdb, read) ==
    IF vdb.files.index = NoFile \/ vdb.files.chunks = NoFile
       \/ vdb.files.metadata = NoFile \/ read = "bad_index"
    THEN vdb
    ELSE [vdb EXCEPT !.index = Content(vdb.files.index),
                     !.document_chunks = IF read = "bad_chunks" THEN @
                                         ELSE Content(vdb.files.chunks)]

\* add_chunks(chunks, source) -> [ok, vdb]: the embeddings go into the index
\* as model.encode returned them
add_chunks(vdb, chunks, encodeOk, written) ==
    IF ~encodeOk THEN [ok |-> FALSE, vdb |-> vdb]
    ELSE [ok |-> TRUE,
          vdb |-> save_vector_db(
                     [vdb EXCEPT !.index = @ \o [k \in 1..Len(chunks) |-> encode(chunks[k])],
                                 !.document_chunks = @ \o chunks],
                     written)]

\* The score faiss gives the slots it fills with id -1
SentinelScore == -1000

\* index.search(query_embedding, top_k): top_k slots, the best vectors first,
\* the slots past ntotal filled with id -1
daily_search(index, q, top_k) ==
    LET scores == [p \in 1..Len(index) |-> similarity(q, index[p].src)]
        order == ranked(scores, 1..Len(index), top_k)
    IN  [k \in 1..top_k |->
            IF k <= Len(order) THEN [score |-> scores[order[k]], idx |-> order[k] - 1]
            ELSE [score |-> SentinelScore, idx |-> -1]]

\* Lines 64-67: the (chunk, score) pairs of the slots with
\* idx < len(document_chunks); document_chunks[-1] is the last chunk
RECURSIVE collect_results(_, _, _)
collect_results(found, chunks, k) ==
    IF k > Len(found) THEN <<>>
    ELSE (IF found[k].idx < Len(chunks)
          THEN <<[chunk |-> IF found[k].idx >= 0 THEN chunks[found[k].idx + 1]
                            ELSE chunks[Len(chunks) + 1 + found[k].idx],
                  score |-> found[k].score]>>
          ELSE <<>>) \o collect_results(found, chunks, k + 1)

\* search_similar_chunks(query, top_k) -> [searched, results].  searched:
\* the vectors handed to index.search.  document_chunks[-1] of an empty list
\* raises IndexError, which line 70 catches.
search_similar_chunks(vdb, q, top_k, encodeOk) ==
    IF Len(vdb.index) = 0 \/ ~encodeOk
    THEN [searched |-> <<>>, results |-> <<>>]
    ELSE LET found == daily_search(vdb.index, q, top_k)
         IN  [searched |-> <<encode(q)>>,
              results |-> IF vdb.document_chunks = <<>>
                             /\ \E k \in 1..top_k : found[k].idx = -1
                          THEN <<>>
                          ELSE collect_results(found, vdb.document_chunks, 1)]

DailyDocs == {<<MinimalKB[1]>>, <<MinimalKB[3], MinimalKB[4]>>}
DailyQueries ==
    {[len |-> 20, words |-> <<"diet">>, rel |-> {MinimalKB[3]}],
     [len |-> 20, words |-> <<"eat">>, rel |-> {}]}
DailyTopK == {1, 5}
DailyReads == {"ok", "bad_index", "bad_chunks"}

\* The last operation was a search of the daily index: a search assigns no
\* field of the object, so what follows it follows the state it ran in
DailySearched == last.op = "search_similar_chunks"

InitDaily ==
    /\ NoSystem /\ PureIdle
    /\ last = Idle

\* VectorDatabase.__init__ in a new process
DailyRestart ==
    \E read \in DailyReads :
        /\ ~DailySearched
        /\ ops < MaxOps
        /\ ops' = ops + 1
        /\ vector_database' = load_vector_db(NewVectorDatabase(vector_database.files), read)
        /\ last' = [op |-> "load_vector_db", read |-> read]
        /\ UNCHANGED <<ragVars, dbVars, input, prediction_db, find_method, requests,
                       recommendations>>

\* process_pdf -> add_chunks
AddChunks ==
    \E chunks \in DailyDocs, encodeOk \in BOOLEAN, written \in Writes :
        /\ ~DailySearched
        /\ ops < MaxOps
        /\ ops' = ops + 1
        /\ \E r \in {add_chunks(vector_database, chunks, encodeOk, written)} :
               /\ vector_database' = r.vdb
               /\ last' = [op |-> "add_chunks", ok |-> r.ok, new |-> Len(chunks)]
        /\ UNCHANGED <<ragVars, dbVars, input, prediction_db, find_method, requests,
                       recommendations>>

\* clear_database
ClearDatabase ==
    \E written \in Writes :
        /\ ~DailySearched
        /\ ops < MaxOps
        /\ ops' = ops + 1
        /\ vector_database' = save_vector_db(NewVectorDatabase(vector_database.files),
                                             written)
        /\ last' = [op |-> "clear_database"]
        /\ UNCHANGED <<ragVars, dbVars, input, prediction_db, find_method, requests,
                       recommendations>>

\* search_similar_chunks, as /search and the recommendation call it
SearchSimilarChunks ==
    \E q \in DailyQueries, top_k \in DailyTopK, encodeOk \in BOOLEAN :
        /\ ~DailySearched
        /\ last' = [op |-> "search_similar_chunks", q |-> q, top_k |-> top_k]
                   @@ search_similar_chunks(vector_database, q, top_k, encodeOk)
        /\ UNCHANGED <<chatbotVars, input, vector_database, prediction_db,
                       find_method, requests,
                       recommendations>>

NextDaily == DailyRestart \/ AddChunks \/ ClearDatabase \/ SearchSimilarChunks
SpecDaily == InitDaily /\ [][NextDaily]_vars

-----------------------------------------------------------------------------
(* chatbot/api/chat_api.py: /chat served by concurrent threads              *)

\* main.py runs the app with threaded=True: each request has a thread of its
\* own and the threads share rag_system. find_method is what the attribute
\* rag_system.find_relevant_context holds: OriginalMethod, the bound method
\* of the class, or custom_find_context closures of /chat, the outermost
\* first, each over the method its request read from the attribute.
\* requests[r] is the thread of request r: pc is the statement it has
\* reached, top_k and similarity_threshold its parameters, original_method
\* its local of that name, retrieved the retrieval its generate_response made.

\* def custom_find_context(query), closed over the request's top_k,
\* similarity_threshold and original_method
custom_find_context(r, top_k, similarity_threshold, original_method) ==
    <<[req |-> r, top_k |-> top_k, similarity_threshold |-> similarity_threshold]>>
        \o original_method

\* Calling what the attribute holds. kwargs is <<>> for a call with the
\* query alone, or one record of the keywords top_k and
\* similarity_threshold. The bound method takes both keywords (None, here 0,
\* when absent); custom_find_context takes the query alone, so keywords
\* raise TypeError, and otherwise it calls the method it closed over with
\* its request's parameters as keywords
RECURSIVE call_method(_, _)
call_method(method, kwargs) ==
    IF method = OriginalMethod
    THEN [error |-> FALSE,
          top_k |-> IF kwargs = <<>> THEN 0 ELSE kwargs[1].top_k,
          similarity_threshold |->
              IF kwargs = <<>> THEN 0 ELSE kwargs[1].similarity_threshold]
    ELSE IF kwargs # <<>>
    THEN [error |-> TRUE, top_k |-> 0, similarity_threshold |-> 0]
    ELSE call_method(Tail(method),
                     <<[top_k |-> Head(method).top_k,
                        similarity_threshold |-> Head(method).similarity_threshold]>>)

InFlight(r) == requests[r].pc \in {"read", "replaced", "generated"}

InitSwap ==
    /\ NoSystem /\ PureIdle
    /\ last = Idle

\* chat, up to original_method = current_app.rag_system.find_relevant_context:
\* the parameters are read from the body and validated (top_k 1..20,
\* similarity_threshold 0..1), then the attribute is read
ReadMethod ==
    \E r \in RequestIds, top_k \in TopKArgs \ {0},
       similarity_threshold \in ThresholdArgs \ {0} :
        /\ requests[r].pc = "waiting"
        /\ requests' = [requests EXCEPT ![r] =
               [pc |-> "read", top_k |-> top_k,
                similarity_threshold |-> similarity_threshold,
                original_method |-> find_method, retrieved |-> <<>>]]
        /\ UNCHANGED <<chatbotVars, input, last, vector_database, prediction_db,
                       find_method,
                       recommendations>>

\* current_app.rag_system.find_relevant_context = custom_find_context
ReplaceMethod ==
    \E r \in RequestIds :
        /\ requests[r].pc = "read"
        /\ find_method' = custom_find_context(r, requests[r].top_k,
                                              requests[r].similarity_threshold,
                                              requests[r].original_method)
        /\ requests' = [requests EXCEPT ![r].pc = "replaced"]
        /\ UNCHANGED <<chatbotVars, input, last, vector_database, prediction_db,
                       recommendations>>

\* generate_response(user_message): context = self.find_relevant_context(query)
\* looks the attribute up at the time of the call; a TypeError is caught by
\* generate_response, which answers with its error message
GenerateResponse ==
    \E r \in RequestIds :
        /\ requests[r].pc = "replaced"
        /\ requests' = [requests EXCEPT ![r].pc = "generated",
                                        ![r].retrieved = <<call_method(find_method, <<>>)>>]
        /\ UNCHANGED <<chatbotVars, input, last, vector_database, prediction_db,
                       find_method,
                       recommendations>>

\* finally: current_app.rag_system.find_relevant_context = original_method
RestoreMethod ==
    \E r \in RequestIds :
        /\ requests[r].pc = "generated"
        /\ find_method' = requests[r].original_method
        /\ requests' = [requests EXCEPT ![r].pc = "restored"]
        /\ UNCHANGED <<chatbotVars, input, last, vector_database, prediction_db,
                       recommendations>>

\* /search of rag_api.py in a thread of its own: find_relevant_context(query,
\* top_k=top_k, similarity_threshold=similarity_threshold) on whatever the
\* attribute holds; an exception is answered with status 500
SearchKnowledge ==
    \E top_k \in TopKArgs \ {0}, similarity_threshold \in ThresholdArgs \ {0} :
        /\ last.op # "search_knowledge"
        /\ last' = [op |-> "search_knowledge", in_flight |-> \E r \in RequestIds : InFlight(r)]
                   @@ call_method(find_method,
                                  <<[top_k |-> top_k,
                                     similarity_threshold |-> similarity_threshold]>>)
        /\ UNCHANGED <<chatbotVars, input, vector_database, prediction_db,
                       find_method, requests,
                       recommendations>>

NextSwap == ReadMethod \/ ReplaceMethod \/ GenerateResponse \/ RestoreMethod
               \/ SearchKnowledge
SpecSwap == InitSwap /\ [][NextSwap]_vars

-----------------------------------------------------------------------------
(* /chat and DELETE /chats/<session_id> served by concurrent threads        *)

\* A /chat request runs in its thread from the session check to the stored
\* message while other requests are served: requests[r] is [pc, user,
\* session_id], pc "verified" after the check of lines 106-110 has passed
\* and before generate_response and store_chat_message have run.  The
\* database executes one statement at a time.

InitSession == InitWith({NoFile}, {"ok"}, {3})

\* chat, lines 88-110: a session is created when none is given, then
\* get_session_owner must return the caller, else 403
VerifySession ==
    \E r \in RequestIds, user \in Users, given \in SessionIds :
        /\ requests[r].pc = "waiting"
        /\ \E created \in {IF given = 0
                           THEN create_chat_session(db_manager, chat_sessions, user, {})
                           ELSE [id |-> given, sessions |-> chat_sessions]} :
               /\ chat_sessions' = created.sessions
               /\ requests' = [requests EXCEPT ![r] =
                      [pc |-> IF get_session_owner(db_manager, created.sessions,
                                                   created.id, {}) = user
                              THEN "verified" ELSE "refused",
                       user |-> user, session_id |-> created.id]]
        /\ UNCHANGED <<ragVars, db_manager, document_chunks, chat_messages,
                       search_logs, ops, input, last, vector_database,
                       prediction_db, find_method,
                       recommendations>>

\* chat, lines 127-142: generate_response, then store_chat_message with the
\* session_id and user_id the request verified
AnswerAndStore ==
    \E r \in RequestIds, llm \in LlmOutcomes :
        /\ requests[r].pc = "verified"
        /\ \E gen \in {generate_response(knowledge_base, faiss_index, embedding_dim,
                           db_manager, search_logs, ChatQuery, 3, SIMILARITY_THRESHOLD,
                           TRUE, 0, llm, {})} :
           \E stored \in {store_chat_message(db_manager, chat_sessions, chat_messages,
                              requests[r].session_id, requests[r].user, gen.text, {})} :
               /\ search_logs' = gen.logs
               /\ chat_sessions' = stored.sessions
               /\ chat_messages' = stored.messages
        /\ requests' = [requests EXCEPT ![r].pc = "answered"]
        /\ UNCHANGED <<ragVars, db_manager, document_chunks, ops, input, last,
                       vector_database, prediction_db, find_method,
                       recommendations>>

\* DELETE /chats/<session_id>, served whole between two statements of the
\* /chat requests in flight
DeleteWhileChatting ==
    \E user \in Users, session_id \in SessionIds \ {0} :
        /\ ops < MaxOps
        /\ ops' = ops + 1
        /\ \E r \in {delete_chat_session(TRUE, db_manager, chat_sessions, user,
                                         session_id, {})} :
               /\ chat_sessions' = r.sessions
               /\ last' = [op |-> "delete", user |-> user, given |-> session_id,
                           status |-> r.status]
        /\ UNCHANGED <<ragVars, db_manager, document_chunks, chat_messages,
                       search_logs, input, otherVars>>

NextSession == VerifySession \/ AnswerAndStore \/ DeleteWhileChatting
SpecSession == InitSession /\ [][NextSession]_vars

-----------------------------------------------------------------------------
(* dailyrecommendationAI/pregnancy_rag_system.py: get_daily_recommendation  *)
(* in concurrent threads                                                    *)

\* A row of recommendations is [user_id, date, text]; all calls fall on one
\* date, "today".  A text is [kind, by]: the AI service gives no two calls
\* the same text (kind "ai", by the call), the fallback recommendation is a
\* function of the user's data (kind "fallback", by 0).  The users are
\* registered and have user data (lines 115-124 pass).

\* query of line 144
RecommendationQuery == [len |-> 55, words |-> <<"pregnancy">>, rel |-> {}]

\* Lines 146-158 with ai_service.generate_recommendation: the AI's text when
\* there are context chunks and the AI call succeeds (ai), else the fallback
generate_recommendation(vdb, r, ai) ==
    IF search_similar_chunks(vdb, RecommendationQuery, 5, TRUE).results # <<>> /\ ai
    THEN [kind |-> "ai", by |-> r]
    ELSE [kind |-> "fallback", by |-> 0]

\* DatabaseManager.get_recommendation_for_date: the newest row's text, as
\* <<text>>, or <<>> for None
get_recommendation_for_date(rows, user_id, date) ==
    LET found == SelectSeq(rows, LAMBDA row : row.user_id = user_id /\ row.date = date)
    IN  IF found = <<>> THEN <<>> ELSE <<found[Len(found)].text>>

\* DatabaseManager.save_recommendation; ok: the INSERT raises no
\* mysql.connector.Error (which the method logs)
save_recommendation(rows, user_id, recommendation, date, ok) ==
    IF ok THEN Append(rows, [user_id |-> user_id, date |-> date, text |-> recommendation])
    ELSE rows

InitRecommend ==
    /\ NoSystem /\ PureIdle
    /\ last = Idle

\* What GET /recommendation/<user_id> answers (api_routes.py 232-237)
RecommendationResponse(user_id, recommendation) ==
    [op |-> "get_recommendation", user_id |-> user_id,
     recommendation |-> recommendation, regenerated |-> FALSE]

\* get_daily_recommendation(user_id), force_regenerate False, up to line 141:
\* an existing recommendation for today is returned
LookUpRecommendation ==
    \E r \in RequestIds, user_id \in UserIds :
        /\ requests[r].pc = "waiting"
        /\ \E existing_rec \in {get_recommendation_for_date(recommendations,
                                                            user_id, "today")} :
               /\ requests' = [requests EXCEPT ![r] =
                      IF existing_rec # <<>>
                      THEN [pc |-> "returned", user_id |-> user_id,
                            text |-> existing_rec[1]]
                      ELSE [pc |-> "generating", user_id |-> user_id]]
               /\ last' = IF existing_rec # <<>>
                          THEN RecommendationResponse(user_id, existing_rec[1])
                          ELSE last
        /\ UNCHANGED <<chatbotVars, input, vector_database, prediction_db,
                       find_method, recommendations>>

\* Lines 143-166: the recommendation is generated, saved and returned
GenerateAndSave ==
    \E r \in RequestIds, ai \in BOOLEAN, ok \in BOOLEAN :
        /\ requests[r].pc = "generating"
        /\ \E recommendation \in {generate_recommendation(vector_database, r, ai)} :
               /\ recommendations' = save_recommendation(recommendations,
                                          requests[r].user_id, recommendation, "today", ok)
               /\ requests' = [requests EXCEPT ![r] =
                      [pc |-> "returned", user_id |-> requests[r].user_id,
                       text |-> recommendation]]
               /\ last' = RecommendationResponse(requests[r].user_id, recommendation)
        /\ UNCHANGED <<chatbotVars, input, vector_database, prediction_db,
                       find_method>>

NextRecommend == AddChunks \/ LookUpRecommendation \/ GenerateAndSave
SpecRecommend == InitRecommend /\ [][NextRecommend]_vars

-----------------------------------------------------------------------------
(* Properties of ingestion, checked under Spec                              *)

\* C1: after any sequence of startup load and uploads, every embedding id i
\* in the vector index is a position of the chunk list, 0 <= i <
\* len(knowledge_base), and the vector stored under i is the embedding of
\* knowledge_base[i].
C1_IdIsChunkPosition ==
    \A k \in 1..Len(faiss_index.vecs) :
        LET v == faiss_index.vecs[k]
        IN  /\ v.id >= 0 /\ v.id < Len(knowledge_base)
            /\ v.src = knowledge_base[v.id + 1]

\* C2: embedding ids are never reused: no two vectors of the index share an
\* id, whatever startup loads and uploads have run.
C2_IdsNeverReused ==
    \A j, k \in 1..Len(faiss_index.vecs) :
        j # k => faiss_index.vecs[j].id # faiss_index.vecs[k].id

\* C10: a startup that finds the persisted index unreadable, or of another
\* dimension than the current embedding model's, ends (the model encoding)
\* with an index of the current dimension holding exactly one vector per
\* chunk of knowledge_base.
C10_CorruptIndexRebuilt ==
    (last.op = "startup" /\ last.encodeOk /\ (last.found = "bad_index" \/ last.mismatch))
        => /\ faiss_index.dim = embedding_dim
           /\ ntotal(faiss_index) = Len(knowledge_base)
           /\ \A p \in 1..Len(knowledge_base) :
                  \E k \in 1..Len(faiss_index.vecs) : faiss_index.vecs[k].src = knowledge_base[p]

-----------------------------------------------------------------------------
(* Properties of retrieval, checked under SpecFind                          *)

\* C3: given at least one chunk in the index, find_relevant_context never
\* returns the empty string, for any query, top_k and similarity_threshold.
C3_ContextNeverEmpty ==
    (last.op = "find" /\ ntotal(faiss_index) > 0 /\ knowledge_base # <<>>)
        => last.ctx.len > 0

\* C6: vector retrieval selects at most top_k chunks for the context (with
\* top_k = 1, exactly one), however many over-fetched results pass the
\* threshold.
C6_AtMostTopKSelected ==
    (last.op = "find" /\ last.path = "vector")
        => /\ Len(last.chunks) <= last.top_k
           /\ Len(last.chunks) >= 1

\* The keyword score of line 325, counted from the chunk itself
KeywordHits(chunk, q) ==
    SeqSum([k \in 1..Len(q.words) |->
               IF WordLen(q.words[k]) > 3 THEN chunk.cnt[q.words[k]] ELSE 0])

\* chunks is what a keyword search over the whole of kb returns: the
\* top_k * 2 best-scoring chunks of those with a positive score, best first
IsKeywordResult(chunks, kb, q, top_k) ==
    LET scored == {p \in 1..Len(kb) : KeywordHits(kb[p], q) > 0}
    IN  /\ Len(chunks) = Min(top_k * 2, Cardinality(scored))
        /\ \E pos \in [1..Len(chunks) -> scored] :
               /\ \A i, j \in 1..Len(chunks) : i # j => pos[i] # pos[j]
               /\ \A i \in 1..Len(chunks) : chunks[i] = kb[pos[i]]
               /\ \A i \in 1..Len(chunks) : \A p \in scored :
                      (\A j \in 1..i : pos[j] # p)
                          => KeywordHits(kb[p], q) <= KeywordHits(chunks[i], q)

\* C11: whenever the query embedding or the index search fails inside
\* find_relevant_context (the encoder raises, the query vector has another
\* dimension than the index, or a result id has no chunk), the call returns
\* the keyword-fallback result computed over the whole chunk list, and it
\* returns rather than raises.
C11_FailureFallsBackToKeywords ==
    (last.op = "find" /\ last.err # "none")
        => /\ last.path = "fallback"
           /\ IsKeywordResult(last.chunks, knowledge_base, last.q, last.top_k)
           /\ (last.chunks = <<>>) = (last.ctx.kind = "empty")

\* The three failures, each answered from a keyword search that found chunks
C11_Witness ==
    /\ last.op = "find" /\ last.err = "index"
    /\ last.path = "fallback" /\ Len(last.chunks) >= 2

\* C13: with an empty index, find_relevant_context returns the empty string
\* for any query (no chunk selected, nothing caught, no keyword search), and
\* it returns rather than raises.
C13_EmptyIndexGivesEmptyString ==
    (last.op = "find" /\ ntotal(faiss_index) = 0)
        => /\ last.path = "none" /\ last.err = "none"
           /\ last.chunks = <<>>
           /\ last.ctx.kind = "empty" /\ last.ctx.len = 0

\* An empty index beside a chunk list with a chunk the query's words occur
\* in, searched with a query the encoder fails on
C13_Witness ==
    /\ last.op = "find" /\ ntotal(faiss_index) = 0
    /\ ~last.encodeOk
    /\ \E p \in 1..Len(knowledge_base) : KeywordHits(knowledge_base[p], last.q) > 0
    /\ last.ctx.len = 0

-----------------------------------------------------------------------------
(* Properties of the pure functions, checked under SpecChunk and SpecTrunc  *)

\* C4: every chunk smart_chunk returns has a length between min_chunk_size
\* and max_chunk_size, inclusive, for every input text.
C4_ChunkSizeWithinBounds ==
    last.op = "smart_chunk"
        => \A k \in 1..Len(last.chunks) :
              /\ last.chunks[k].len >= MIN_CHUNK_SIZE
              /\ last.chunks[k].len <= CHUNK_SIZE

\* C5: with a positive available budget, the token count of the context
\* truncate_context returns is at most available_tokens plus one chunk's
\* worth of tokens (the largest candidate's), under the len // 4 estimator.
C5_ContextWithinBudget ==
    (last.op = "truncate_context" /\ last.avail > 0)
        => count_tokens(last.ctx.len)
             <= last.avail + SeqMax([k \in 1..Len(input.chunks) |->
                                          count_tokens(input.chunks[k])])

\* C12: when the available budget (max_total_tokens - tokens(system_prompt)
\* - tokens(query) - 500) is <= 0 and there is a candidate, truncate_context
\* returns exactly the first 500 characters of the first candidate chunk
\* (all of it when it is shorter), no whole chunk and nothing else, and it
\* returns rather than raises.
C12_HardFallbackFirst500 ==
    (last.op = "truncate_context" /\ last.avail <= 0 /\ input.chunks # <<>>)
        => /\ last.ctx.kind = "hard"
           /\ last.ctx.full = 0
           /\ last.ctx.partial = Min(500, input.chunks[1])
           /\ last.ctx.len = last.ctx.partial

\* A query that leaves no budget, a first candidate longer than 500
\* characters and a second, shorter one: 500 characters come back
C12_Witness ==
    /\ last.op = "truncate_context" /\ last.avail <= 0
    /\ Len(input.chunks) >= 2
    /\ input.chunks[1] > 500 /\ input.chunks[2] < 500
    /\ last.ctx.len = 500

\* The chunks that sentence-level splitting produced
SentenceLevel(chunks) == SelectSeq(chunks, LAMBDA c : "carried" \in DOMAIN c)

C15_ChunkingIdempotent ==
    (/\ last.op = "rechunk"
     /\ last.chunk.len >= MIN_CHUNK_SIZE /\ last.chunk.len <= CHUNK_SIZE)
        => /\ Len(last.chunks) = 1
           /\ last.chunks[1].sents = last.chunk.sents
           /\ last.chunks[1].len = last.chunk.len

\* A chunk that sentence-level splitting made of a longer text, with
\* sentences carried over, chunked again
C15_Witness ==
    /\ last.op = "rechunk"
    /\ "carried" \in DOMAIN last.chunk /\ last.chunk.carried > 0
    /\ last.chunk.len >= MIN_CHUNK_SIZE /\ last.chunk.len <= CHUNK_SIZE
    /\ Len(last.chunks) = 1

-----------------------------------------------------------------------------
(* Properties of the /chat endpoint, checked under SpecChat                 *)

\* A /chat request that got as far as generate_response
Generated == last.op = "chat" /\ last.generated

\* C7: a failure of the LLM call, or of a retrieval step, during a chat
\* request does not propagate: the request is answered with status 200 and
\* a non-empty response, which is the apology when the LLM call failed.
C7_FailureAnswered200 ==
    Generated
        => /\ last.status = 200
           /\ last.response \in {"answer", "error_msg"}
           /\ (last.llm[1] = "raise" => last.response = "error_msg")

\* C7 witness: over a non-empty index, the embedding of the query and the
\* LLM call both failed and the request was answered 200 with the apology
C7_Witness ==
    /\ Generated /\ ~last.encodeOk /\ last.llm[1] = "raise"
    /\ knowledge_base # <<>> /\ ntotal(faiss_index) > 0
    /\ last.status = 200 /\ last.response = "error_msg"

\* C8 as amended: when the LLM call fails, generate_response makes no
\* second call; after the one failed call it returns the error message.
C8_NoRetryThenErrorMessage ==
    (Generated /\ last.llm[1] = "raise")
        => last.calls = 1 /\ last.response = "error_msg"

\* C8 witness: the first call failed, a second one would have succeeded,
\* and the response is the error message after one call
C8_Witness ==
    /\ Generated /\ last.llm = <<"raise", "ok">>
    /\ last.calls = 1 /\ last.response = "error_msg" /\ last.status = 200

\* C8 as stated: when the LLM call fails, generate_response retries it
\* exactly once and returns the error message only if the retry fails too.
C8_RetriesOnce ==
    (Generated /\ last.llm[1] = "raise")
        => /\ last.calls = 2
           /\ (last.response = "error_msg" <=> last.llm[2] = "raise")

\* C9: a /chat request with a valid message (no session named) is answered
\* 200 with the generated response whenever the RAG system is available,
\* whatever the state of the database and whichever of its writes fail.
C9_ValidChatAnswered ==
    (last.op = "chat" /\ last.rag /\ last.valid /\ last.given = 0)
        => /\ last.status = 200
           /\ last.generated
           /\ last.response \in {"answer", "error_msg"}

\* The rows of chat_messages that belong to session s
MessagesOf(messages, s) == SelectSeq(messages, LAMBDA m : m.session = s)

\* A step that serves a request of a user other than the owner of the active
\* session s, on s
ForeignRequest(s) ==
    /\ s \in 1..Len(chat_sessions) /\ chat_sessions[s].active
    /\ last'.op \in {"chat", "history", "export", "delete"}
    /\ last'.given = s
    /\ last'.user # chat_sessions[s].user

\* C17: for every active chat session s owned by user u and every
\* authenticated user v other than u, a chat, history, export or delete
\* request by v on s returns none of s's messages (and generates no answer),
\* leaves s's messages, message_count and is_active unchanged, and, the
\* request being well-formed and the RAG system up, is answered 403 or 404.
C17_Step ==
    \A s \in SessionIds :
        ForeignRequest(s)
            => /\ last'.messages = <<>>
               /\ last'.op = "chat" => ~last'.generated
               /\ Len(chat_sessions') = Len(chat_sessions)
               /\ chat_sessions'[s] = chat_sessions[s]
               /\ MessagesOf(chat_messages', s) = MessagesOf(chat_messages, s)
               /\ (last'.rag /\ last'.valid) => last'.status \in {403, 404}
-----------------------------------------------------------------------------
(* Properties of the prediction endpoints, checked under SpecPrediction     *)

\* The rows of the table predictions that a step changed, removed or added
Written ==
    LET before == {prediction_db.predictions[k] : k \in 1..Len(prediction_db.predictions)}
        after == {prediction_db'.predictions[k] : k \in 1..Len(prediction_db'.predictions)}
    IN  (before \cup after) \ (before \cap after)

\* C18: users can only access their own predictions: every prediction
\* returned to, updated by or deleted by an authenticated user has user_id
\* equal to that user's id, and a well-formed request to /user/<user_id>/...
\* with a user_id other than the authenticated user's is answered 403
\* without a statement on the table predictions and without a change of it.
C18_Step ==
    /\ \A k \in 1..Len(last'.data) : last'.data[k].user_id = last'.auth
    /\ \A row \in Written : row.user_id = last'.auth
    /\ (last'.op \in UserIdRoutes /\ last'.valid
        /\ last'.auth # 0 /\ last'.user_id # last'.auth)
            => /\ last'.status = 403
               /\ ~last'.touched
               /\ last'.data = <<>>
               /\ prediction_db'.predictions = prediction_db.predictions
-----------------------------------------------------------------------------
(* Properties of the daily recommendation index, checked under SpecDaily    *)

\* C16: every vector inserted into a vector index, and every query vector
\* searched against one, has been L2-normalized by the caller first, in the
\* chat RAG system (faiss_index) and in the daily-recommendation vector
\* database alike.
C16_VectorsNormalizedByCaller ==
    /\ \A k \in 1..Len(faiss_index.vecs) : faiss_index.vecs[k].normalized
    /\ \A k \in 1..Len(vector_database.index) : vector_database.index[k].normalized
    /\ last.op \in {"find", "search_similar_chunks"}
           => \A k \in 1..Len(last.searched) : last.searched[k].normalized

-----------------------------------------------------------------------------
(* Properties of concurrent /chat requests, checked under SpecSwap          *)

\* C19: the per-request method swap of /chat is temporary: once every
\* in-flight /chat request has completed, whatever the interleaving of the
\* concurrent requests was, rag_system.find_relevant_context is again the
\* original bound method, which accepts top_k and similarity_threshold.
C19_OriginalMethodRestored ==
    (\A r \in RequestIds : ~InFlight(r)) => find_method = OriginalMethod

\* C20: the retrieval of each /chat request is performed with the top_k and
\* similarity_threshold of that request, the values its response reports in
\* parameters_used, also when other /chat requests run at the same time.
C20_OwnParametersUsed ==
    \A r \in RequestIds :
        requests[r].pc \in {"generated", "restored"}
            => requests[r].retrieved =
                   <<[error |-> FALSE, top_k |-> requests[r].top_k,
                      similarity_threshold |-> requests[r].similarity_threshold]>>

-----------------------------------------------------------------------------
(* Further properties of ingestion, checked under Spec                      *)

\* C21: in every state reached by the startup load and any sequence of PDF
\* uploads, successful or failed, the vector index holds exactly one vector
\* per chunk: faiss_index.ntotal == len(knowledge_base).
C21_OneVectorPerChunk == ntotal(faiss_index) = Len(knowledge_base)

\* C22: when update_knowledge_base_from_pdf returns False (no content, no
\* valid chunk, or the embeddings failed), the in-memory knowledge_base, the
\* vector index and the cache on disk are what they were before the call.
C22_Step ==
    (last'.op = "upload" /\ ~last'.ok)
        => /\ knowledge_base' = knowledge_base
           /\ faiss_index' = faiss_index
           /\ cache' = cache
C22_FailedUploadChangesNothing == [][C22_Step]_vars

-----------------------------------------------------------------------------
(* Further properties of retrieval, checked under SpecFind                  *)

\* C23: when the vector index is empty or unavailable while the chunk list
\* is not empty, find_relevant_context skips the vector search and returns
\* the result of the keyword fallback over the chunk list.
C23_EmptyIndexFallsBackToKeywords ==
    (last.op = "find" /\ ntotal(faiss_index) = 0 /\ knowledge_base # <<>>)
        => /\ last.searched = <<>>
           /\ IsKeywordResult(last.chunks, knowledge_base, last.q, last.top_k)
           /\ (last.chunks = <<>>) = (last.ctx.kind = "empty")

\* The results of the index search that a threshold lets through, or the
\* best one when none passes
Qualifying(res, thr) ==
    LET passing == SelectSeq(res, LAMBDA r : r.score >= thr)
    IN  IF passing # <<>> THEN passing
        ELSE IF res # <<>> THEN <<res[1]>> ELSE <<>>

\* C24: for every similarity_threshold that validation accepts (any value
\* from 0 to 1, 0 included), the chunks vector retrieval selects are exactly
\* the search results with score >= that threshold or, when none qualifies
\* but there is a raw result, the single best-scoring result.  (The chunk of
\* a result is the one the code takes for its id, knowledge_base[id].)
C24_SelectedAreThoseAtThreshold ==
    (last.op = "find" /\ last.path = "vector")
        => LET res == search(faiss_index, last.q,
                             search_k(last.top_k, ntotal(faiss_index)))
               expected == Qualifying(res, last.threshold)
           IN  /\ Len(last.chunks) = Len(expected)
               /\ \A k \in 1..Len(expected) :
                      expected[k].id < Len(knowledge_base)
                          => last.chunks[k] = knowledge_base[expected[k].id + 1]

\* The positions of kb with a positive keyword score for q
Scored(kb, q) == {p \in 1..Len(kb) : KeywordHits(kb[p], q) > 0}

\* The place of position p among the scored positions: one more than the
\* number of positions with a higher score, or the same score and earlier
KeywordRank(kb, q, p) ==
    1 + Cardinality({r \in Scored(kb, q) :
                        \/ KeywordHits(kb[r], q) > KeywordHits(kb[p], q)
                        \/ (KeywordHits(kb[r], q) = KeywordHits(kb[p], q) /\ r < p)})

\* C25: the keyword fallback scores each chunk by the summed
\* case-insensitive substring counts of the query words longer than 3
\* characters and selects at most top_k * 2 chunks, all with a nonzero
\* score, in descending order of score, chunks of equal score in the order
\* of the chunk list.
C25_KeywordFallbackOrder ==
    (last.op = "find" /\ last.path = "fallback")
        => /\ Len(last.chunks) = Min(last.top_k * 2,
                                     Cardinality(Scored(knowledge_base, last.q)))
           /\ \A i \in 1..Len(last.chunks) :
                  /\ KeywordHits(last.chunks[i], last.q) > 0
                  /\ \E p \in Scored(knowledge_base, last.q) :
                         /\ KeywordRank(knowledge_base, last.q, p) = i
                         /\ last.chunks[i] = knowledge_base[p]

\* A keyword search that kept top_k * 2 chunks of more, in two different
\* scores, and left out a chunk with the score of the last one kept
C25_Witness ==
    /\ last.op = "find" /\ last.path = "fallback"
    /\ Len(last.chunks) = last.top_k * 2
    /\ KeywordHits(last.chunks[1], last.q) > KeywordHits(last.chunks[2], last.q)
    /\ \E p \in Scored(knowledge_base, last.q) :
           /\ KeywordRank(knowledge_base, last.q, p) > Len(last.chunks)
           /\ KeywordHits(knowledge_base[p], last.q)
                  = KeywordHits(last.chunks[Len(last.chunks)], last.q)
           /\ knowledge_base[p] # last.chunks[Len(last.chunks)]

-----------------------------------------------------------------------------
(* Further properties of truncate_context, checked under SpecTrunc          *)

\* The tokens of the first k candidates
TokensOfFirst(chunks, k) == SeqSum([i \in 1..k |-> count_tokens(chunks[i])])

\* C26: greedy packing stops at the first candidate that does not fit
\* whole: the context is the candidates 1..j in full and in order,
\* optionally followed by a truncated prefix of candidate j+1 (only when
\* more than 50 tokens remain), and holds no text of any later candidate,
\* even of one that would fit.
C26_PackingStopsAtFirstMisfit ==
    (last.op = "truncate_context" /\ last.avail > 0 /\ input.chunks # <<>>)
        => LET chunks == input.chunks
               j == last.ctx.full
               partial == last.ctx.partial
               pieces == j + (IF partial > 0 THEN 1 ELSE 0)
           IN  /\ j <= Len(chunks)
               /\ TokensOfFirst(chunks, j) <= last.avail
               /\ j < Len(chunks) => TokensOfFirst(chunks, j + 1) > last.avail
               /\ partial > 0
                      <=> (j < Len(chunks)
                           /\ last.avail - TokensOfFirst(chunks, j) > 50)
               /\ partial > 0
                      => /\ partial < chunks[j + 1]
                         /\ partial <= 4 * (last.avail - TokensOfFirst(chunks, j))
               /\ last.ctx.len = SeqSum([i \in 1..j |-> chunks[i]]) + partial
                                   + (IF pieces > 0 THEN 2 * (pieces - 1) ELSE 0)

\* Packing stopped at a candidate that did not fit, with too little room
\* left for a part of it, although a later candidate would have fitted
C26_Witness ==
    /\ last.op = "truncate_context" /\ last.avail > 0
    /\ last.ctx.full >= 1 /\ last.ctx.partial = 0
    /\ \E k \in (last.ctx.full + 2)..Len(input.chunks) :
           TokensOfFirst(input.chunks, last.ctx.full) + count_tokens(input.chunks[k])
               <= last.avail

-----------------------------------------------------------------------------
(* Properties of concurrent chat and delete requests, checked under         *)
(* SpecSession                                                              *)

\* C27: once the owner's delete of a chat session has succeeded, no chat
\* message is ever stored in that session and its message_count never
\* changes again, also when a /chat request on that session is in flight
\* at the time of the delete.
C27_Step ==
    \A s \in 1..Len(chat_sessions) :
        ~chat_sessions[s].active
            => /\ MessagesOf(chat_messages', s) = MessagesOf(chat_messages, s)
               /\ chat_sessions'[s].count = chat_sessions[s].count
C27_DeletedSessionFrozen == [][C27_Step]_vars

-----------------------------------------------------------------------------
(* Further properties of the daily recommendation index, checked under      *)
(* SpecDaily                                                                *)

\* C28: the daily-recommendation search filters out the sentinel id -1:
\* when top_k exceeds the number of stored vectors, search_similar_chunks
\* returns at most ntotal results, each for a distinct stored chunk, and
\* never a chunk for a padded slot.
C28_PaddedSlotsFilteredOut ==
    last.op = "search_similar_chunks"
        => /\ Len(last.results) <= Len(vector_database.index)
           /\ \A k \in 1..Len(last.results) :
                  last.results[k].score # SentinelScore
           /\ \E pos \in [1..Len(last.results) -> 1..Len(vector_database.document_chunks)] :
                  /\ \A i, j \in 1..Len(last.results) : i # j => pos[i] # pos[j]
                  /\ \A i \in 1..Len(last.results) :
                         last.results[i].chunk = vector_database.document_chunks[pos[i]]

-----------------------------------------------------------------------------
(* Properties of restarts over an edited corpus, checked under SpecCorpus   *)

\* C29: the cache on disk is reused on restart only when it is not stale:
\* when the content of the default corpus differs from the content the
\* cache was built from, load_knowledge_base detects this through the
\* content hash and rebuilds the chunk list and the index instead of
\* loading the cache.  (Whether reused or rebuilt, the chunk list after the
\* start then begins with the chunks of the corpus the process found,
\* uploaded chunks following them.)
C29_StaleCacheNotReused ==
    (last.op = "startup" /\ input.op = "default_kb")
        => LET corpus == IF input.file = NoFile THEN MinimalKB
                         ELSE Content(input.file)
           IN  /\ Len(knowledge_base) >= Len(corpus)
               /\ SubSeq(knowledge_base, 1, Len(corpus)) = corpus

-----------------------------------------------------------------------------
(* Properties of the daily recommendation, checked under SpecRecommend      *)

\* The rows stored for a user today
RowsOf(user_id) ==
    SelectSeq(recommendations, LAMBDA row : row.user_id = user_id /\ row.date = "today")

\* C30: daily recommendations are generated once per user per day: for any
\* sequence or interleaving of get_daily_recommendation calls without
\* force_regenerate for one user on one date, at most one recommendation
\* row is stored for that (user, date), and every call after the first
\* returns the text stored by the first.
C30_OncePerUserPerDay ==
    \A user_id \in UserIds :
        /\ Len(RowsOf(user_id)) <= 1
        /\ \A r, t \in RequestIds :
               (/\ requests[r].pc = "returned" /\ requests[r].user_id = user_id
                /\ requests[t].pc = "returned" /\ requests[t].user_id = user_id)
                   => requests[r].text = requests[t].text

====
